---------------------------- MODULE Spec2Model ----------------------------
(***************************************************************************)
(* Model of the opportunity evaluation and prioritisation pipeline of the  *)
(* "digital being" activities:                                             *)
(*   my_digital_being/activities/activity_opportunity_analyzer.py          *)
(*   my_digital_being/activities/activity_money_evaluation.py              *)
(* Scores are Python floats (IEEE-754 binary64).  They are modelled bit    *)
(* for bit: a double is held as a fixed-point number of six base-2^12      *)
(* limbs, and every +, -, *, comparison, literal and round(x, 2) is        *)
(* rounded as CPython rounds it.                                           *)
(***************************************************************************)
EXTENDS Integers, Sequences, FiniteSets, TLC

(***************************************************************************)
(* Binary64 arithmetic.                                                    *)
(*                                                                         *)
(* A limb sequence s (least significant limb first, limbs in 0..2^12-1)    *)
(* with F fractional limbs stands for  (SUM s[i] * 2^(12*(i-1))) / 2^(12F).*)
(* A double is such a sequence of 6 limbs with F = 5: every double in      *)
(* [2^-7, 2^12) is a multiple of 2^-60, and every value the scorers        *)
(* produce lies in that range (or is 0).                                   *)
(***************************************************************************)
Base == 2^12

\* position (1-based limb index) and offset of bit i (bit 0 = least significant)
LimbOf(i) == (i \div 12) + 1

BitOff(i) == i % 12

\* column i of a sequence of column sums, 0 outside it
Col(cols, i) == IF i >= 1 /\ i <= Len(cols) THEN cols[i] ELSE 0

\* one carry-save step over n columns (each below 2^27): a column keeps its
\* low limb and takes the middle and the high limb of the two columns below
Spread(cols, n) ==
    SubSeq([k \in 1..n |-> (Col(cols, k) % Base)
                           + ((Col(cols, k - 1) \div Base) % Base)
                           + (Col(cols, k - 2) \div (Base * Base))], 1, n)

\* a carry enters column k of t (columns below 2 * Base - 1): some column
\* below k overflows and every column in between is full
CarryInto(t, k) ==
    \E j \in 1..(k - 1) : t[j] >= Base /\ \A i \in (j + 1)..(k - 1) : t[i] = Base - 1

Ripple(t, n) ==
    SubSeq([k \in 1..n |-> (t[k] + (IF CarryInto(t, k) THEN 1 ELSE 0)) % Base], 1, n)

\* propagate carries through n columns (each below 2^27): the n low limbs
Carry(cols, n) == Ripple(Spread(Spread(cols, n), n), n)

\* exact sum of two limb sequences of the same length (same length returned)
AddL(a, b) == Ripple(SubSeq([i \in 1..Len(a) |-> a[i] + b[i]], 1, Len(a)), Len(a))

\* a borrow enters column k of a - b
BorrowInto(a, b, k) ==
    \E j \in 1..(k - 1) : a[j] < b[j] /\ \A i \in (j + 1)..(k - 1) : a[i] = b[i]

\* exact difference a - b of two limb sequences of the same length, a >= b
SubL(a, b) ==
    SubSeq([k \in 1..Len(a) |->
               (Base + a[k] - b[k] - (IF BorrowInto(a, b, k) THEN 1 ELSE 0)) % Base],
           1, Len(a))

\* column k of the schoolbook product of two doubles: SUM a[i] * b[k + 1 - i]
Term(a, b, k, i) == IF k + 1 - i >= 1 /\ k + 1 - i <= Len(b) THEN a[i] * b[k + 1 - i] ELSE 0

ColSum(a, b, k) ==
    Term(a, b, k, 1) + Term(a, b, k, 2) + Term(a, b, k, 3)
    + Term(a, b, k, 4) + Term(a, b, k, 5) + Term(a, b, k, 6)

\* exact product of two doubles: 12 limbs
MulL(a, b) ==
    Carry(SubSeq([k \in 1..(Len(a) + Len(b)) |-> ColSum(a, b, k)], 1, Len(a) + Len(b)),
          Len(a) + Len(b))

\* exact product of a limb sequence by a small natural (same length returned)
MulSmall(a, m) == Carry(SubSeq([i \in 1..Len(a) |-> a[i] * m], 1, Len(a)), Len(a))

\* Base^e mod m for e below 16, by squaring
MulMod(u, v, m) == (u * v) % m

Squared(u, m) == MulMod(u, u, m)

PowMod(e, m) ==
    MulMod(MulMod(IF e % 2 = 1 THEN Base % m ELSE 1,
                  IF (e \div 2) % 2 = 1 THEN Squared(Base % m, m) ELSE 1, m),
           MulMod(IF (e \div 4) % 2 = 1 THEN Squared(Squared(Base % m, m), m) ELSE 1,
                  IF (e \div 8) % 2 = 1 THEN Squared(Squared(Squared(Base % m, m), m), m) ELSE 1,
                  m),
           m)

\* long division of n * Base^10 by a small natural m:
\* <<12 quotient limbs (least significant first), remainder>>.  Limb j <= 10
\* is the quotient of the remainder left above it, (n * Base^(10 - j)) mod m,
\* brought down one limb.
DivScaled(n, m) ==
    <<SubSeq([j \in 1..12 |->
                 IF j = 12 THEN 0
                 ELSE IF j = 11 THEN n \div m
                 ELSE (MulMod(n % m, PowMod(10 - j, m), m) * Base) \div m], 1, 12),
      MulMod(n % m, PowMod(10, m), m)>>

\* number of significant bits of a limb sequence (0 for zero)
LimbBitLen(v) == CHOOSE b \in 0..12 : v < 2^b /\ (b = 0 \/ v >= 2^(b - 1))

\* index of the most significant non-zero limb (0 for zero)
TopLimb(a) ==
    CHOOSE i \in 0..Len(a) : (i = 0 \/ a[i] # 0) /\ \A j \in (i + 1)..Len(a) : a[j] = 0

BitLenAt(a, t) == IF t = 0 THEN 0 ELSE 12 * (t - 1) + LimbBitLen(a[t])

BitLen(a) == BitLenAt(a, TopLimb(a))

Bit(a, i) == (a[LimbOf(i)] \div 2^BitOff(i)) % 2

\* some bit below bit k is set
LowNonZero(a, k) ==
    \E i \in 1..Len(a) :
        \/ 12 * i <= k /\ a[i] # 0
        \/ 12 * (i - 1) < k /\ k < 12 * i /\ a[i] % 2^(k - 12 * (i - 1)) # 0

\* a with the bits below bit d cleared
ClearLow(a, d) ==
    [i \in 1..Len(a) |->
        IF 12 * i <= d THEN 0
        ELSE IF 12 * (i - 1) < d THEN a[i] - (a[i] % 2^(d - 12 * (i - 1)))
        ELSE a[i]]

OneHot(len, d) == [i \in 1..len |-> IF i = LimbOf(d) THEN 2^BitOff(d) ELSE 0]

FZero == <<0, 0, 0, 0, 0, 0>>

\* Round a limb sequence with F fractional limbs (plus a sticky bit for a
\* discarded non-zero tail) to 53 significant bits, ties to even, and return
\* it as a double (6 limbs, 5 fractional).
\* d is the number of bits to discard: BitLen(a) - 53
RoundUp(a, sticky, d) ==
    /\ d > 0
    /\ Bit(a, d - 1) = 1
    /\ (sticky \/ LowNonZero(a, d - 1) \/ Bit(a, d) = 1)

RoundAt(a, sticky, F, d) ==
    SubSeq(IF RoundUp(a, sticky, d)
           THEN AddL(ClearLow(a, d), OneHot(Len(a), d))
           ELSE ClearLow(a, d),
           F - 4, F + 1)

Round53(a, sticky, F) ==
    IF TopLimb(a) = 0 THEN FZero ELSE RoundAt(a, sticky, F, BitLen(a) - 53)

\* the double of a small natural n (int -> float conversion)
FromInt(n) == <<0, 0, 0, 0, 0, n>>

\* the double nearest to n / 10^k: the value of a decimal literal
\* qr is <<quotient limbs, remainder>>
RoundQuotient(qr) == IF qr[2] = 0 THEN Round53(qr[1], FALSE, 10) ELSE Round53(qr[1], TRUE, 10)

Dec(n, k) == RoundQuotient(DivScaled(n, 10^k))

\* a + b (x + 0.0 is x)
FAdd(a, b) ==
    IF a = FZero THEN b
    ELSE IF b = FZero THEN a
    ELSE Round53(AddL(a, b), FALSE, 5)

\* a * b (x * 0.0 is 0.0)
FMul(a, b) ==
    IF a = FZero \/ b = FZero THEN FZero
    ELSE Round53(MulL(a, b), FALSE, 10)

\* a negative double: the scorers hand a difference straight to max(0.0, .),
\* so of a negative difference only its sign is kept.  Its top limb is below
\* every limb of a double, which orders it below every double.
FNeg == <<0, 0, 0, 0, 0, 0 - 1>>

\* a < b: smaller at the most significant limb where they differ
FLt(a, b) ==
    \E i \in 1..Len(a) : a[i] < b[i] /\ \A j \in (i + 1)..Len(a) : a[j] = b[j]

FLe(a, b) == ~FLt(b, a)

\* a - b
FSub(a, b) == IF FLt(a, b) THEN FNeg ELSE Round53(SubL(a, b), FALSE, 5)

\* variant: the cap added to the score instead of limiting it
FMinAdded(a, b) == FAdd(a, b)

FMin(a, b) == IF FLt(b, a) THEN b ELSE a

FMax(a, b) == IF FLt(a, b) THEN b ELSE a

\* Python round(v, 2): the decimal with 2 places nearest to the exact binary
\* value of v (ties to even), converted back to the nearest double
\* variant: the total is reported as computed, without round(., 2)
Round2Skipped(v) == v

FHalf == <<0, 0, 0, 0, 2^11, 0>>

\* the integer nearest to n + frac, ties to even
NearestEven(n, frac) ==
    IF FLt(FHalf, frac) \/ (frac = FHalf /\ n % 2 = 1) THEN n + 1 ELSE n

\* h is the exact product 100 * v
Round2Of(h) == Dec(NearestEven(h[6], [h EXCEPT ![6] = 0]), 2)

Round2(v) == IF v = FZero THEN FZero ELSE Round2Of(MulSmall(v, 100))

(***************************************************************************)
(* Python text and dict operations used by the scorers.                    *)
(***************************************************************************)
UpperChars == "ABCDEFGHIJKLMNOPQRSTUVWXYZ"

LowerChars == "abcdefghijklmnopqrstuvwxyz"

DigitChars == "0123456789"

CharAt(s, i) == SubSeq(s, i, i)

LowerChar(c) ==
    IF \E i \in 1..Len(UpperChars) : CharAt(UpperChars, i) = c
    THEN CharAt(LowerChars, CHOOSE i \in 1..Len(UpperChars) : CharAt(UpperChars, i) = c)
    ELSE c

\* str.lower()
RECURSIVE Lower(_)
Lower(s) ==
    IF Len(s) = 0 THEN ""
    ELSE IF Len(s) = 1 THEN LowerChar(s)
    ELSE Lower(SubSeq(s, 1, Len(s) \div 2)) \o Lower(SubSeq(s, (Len(s) \div 2) + 1, Len(s)))

\* k in s  (substring test)
Contains(s, k) ==
    \E i \in 1..(Len(s) - Len(k) + 1) : SubSeq(s, i, i + Len(k) - 1) = k

\* any(k in s for k in keys)
ContainsAny(s, keys) == \E i \in 1..Len(keys) : Contains(s, keys[i])

\* s.split("%")[0]: the text before the first "%"
BeforePercent(s) ==
    IF Contains(s, "%")
    THEN SubSeq(s, 1, (CHOOSE i \in 1..Len(s) :
                          /\ CharAt(s, i) = "%"
                          /\ \A j \in 1..(i - 1) : CharAt(s, j) # "%") - 1)
    ELSE s

\* str.strip() of blanks
RECURSIVE Strip(_)
Strip(s) ==
    IF Len(s) = 0 THEN s
    ELSE IF CharAt(s, 1) = " " THEN Strip(SubSeq(s, 2, Len(s)))
    ELSE IF CharAt(s, Len(s)) = " " THEN Strip(SubSeq(s, 1, Len(s) - 1))
    ELSE s

IsDigit(c) == \E i \in 1..Len(DigitChars) : CharAt(DigitChars, i) = c

DigitVal(c) == (CHOOSE i \in 1..Len(DigitChars) : CharAt(DigitChars, i) = c) - 1

RECURSIVE DigitsVal(_)
DigitsVal(s) ==
    IF Len(s) = 0 THEN 0
    ELSE 10 * DigitsVal(SubSeq(s, 1, Len(s) - 1)) + DigitVal(CharAt(s, Len(s)))

\* float(s) for the texts of the model: blanks are stripped and an unsigned
\* decimal numeral "ddd" or "ddd.ddd" is read; anything else raises ValueError.
\* The value is num / 10^scale (exact: the numerals are short).
\* ip and fp are the texts before and after the dot of the stripped text t
ParseParts(t, dots, ip, fp) ==
    IF /\ Cardinality(dots) <= 1
       /\ Len(ip) + Len(fp) > 0
       /\ \A i \in 1..Len(t) : i \in dots \/ IsDigit(CharAt(t, i))
    THEN [ok |-> TRUE, num |-> DigitsVal(ip \o fp), scale |-> Len(fp)]
    ELSE [ok |-> FALSE, num |-> 0, scale |-> 0]

ParseDotted(t, dots) ==
    ParseParts(t, dots,
               IF dots = {} THEN t ELSE SubSeq(t, 1, (CHOOSE i \in dots : TRUE) - 1),
               IF dots = {} THEN "" ELSE SubSeq(t, (CHOOSE i \in dots : TRUE) + 1, Len(t)))

ParseStripped(t) == ParseDotted(t, {i \in 1..Len(t) : CharAt(t, i) = "."})

ParseFloat(s) == ParseStripped(Strip(s))

\* rate > n for a parsed float and an int n
RateGt(r, n) == r.num > n * 10^(r.scale)

EmptyDict == <<>>

\* d.get(k, default)
Get(d, k, default) == IF k \in DOMAIN d THEN d[k] ELSE default

\* d[k] = v  /  {**d, k: v}
Put(d, k, v) == [j \in DOMAIN d \cup {k} |-> IF j = k THEN v ELSE d[j]]

\* Python's None where a dict is expected: encoded as a record with the
\* single field py_none, a key no dict of the program has
PyNone == [py_none |-> TRUE]

IsNone(v) == "py_none" \in DOMAIN v

\* str(e) of the TypeError that  "skills" in None  raises
NoneNotIterable == "argument of type 'NoneType' is not iterable"

(***************************************************************************)
(* OpportunityAnalyzerActivity: criteria and scorers.                      *)
(***************************************************************************)
CriteriaOrder == <<"market_potential", "feasibility", "risk_level", "profitability">>

\* variant: the market potential weight raised to 0.4, the others kept
OA_market_heavy_criteria ==
    [market_potential |-> [weight |-> Dec(4, 1)],
     feasibility      |-> [weight |-> Dec(25, 2)],
     risk_level       |-> [weight |-> Dec(25, 2)],
     profitability    |-> [weight |-> Dec(2, 1)]]

\* self.evaluation_criteria as set by __init__ (the informational "factors"
\* lists are never read and are left out)
OA_init_criteria ==
    [market_potential |-> [weight |-> Dec(3, 1)],
     feasibility      |-> [weight |-> Dec(25, 2)],
     risk_level       |-> [weight |-> Dec(25, 2)],
     profitability    |-> [weight |-> Dec(2, 1)]]

\* score += inc  under a condition
AddIf(score, cond, inc) == IF cond THEN FAdd(score, inc) ELSE score

\* score -= dec  under a condition
SubIf(score, cond, dec) == IF cond THEN FSub(score, dec) ELSE score

\* the try block of _evaluate_market_potential: rate is float(text before "%")
OA_growth_bonus(score, rate) ==
    IF ~rate.ok THEN score
    ELSE IF RateGt(rate, 20) THEN FAdd(score, Dec(1, 1))
    ELSE IF RateGt(rate, 10) THEN FAdd(score, Dec(5, 2))
    ELSE score

OA_market_size_bonus(score, market_size) ==
    IF Contains(market_size, "trillion") THEN FAdd(score, Dec(2, 1))
    ELSE IF Contains(market_size, "billion") THEN FAdd(score, Dec(1, 1))
    ELSE score

OA_market_size_step(score, o) ==
    IF "market_size" \in DOMAIN o
    THEN OA_market_size_bonus(score, Lower(o["market_size"]))
    ELSE score

OA_growth_step(score, o) ==
    IF "growth_rate" \in DOMAIN o /\ Contains(o["growth_rate"], "%")
    THEN OA_growth_bonus(score, ParseFloat(BeforePercent(o["growth_rate"])))
    ELSE score

OA_evaluate_market_potential(o) ==
    FMin(Dec(1, 0), OA_growth_step(OA_market_size_step(Dec(7, 1), o), o))

OA_skills_bonus(score, reqs) ==
    IF "skills" \in DOMAIN reqs
    THEN IF Len(reqs["skills"]) <= 2 THEN FAdd(score, Dec(2, 1))
         ELSE IF Len(reqs["skills"]) <= 4 THEN FAdd(score, Dec(1, 1))
         ELSE score
    ELSE score

OA_feasibility_of(reqs) ==
    FMin(Dec(1, 0),
         AddIf(OA_skills_bonus(Dec(6, 1), reqs),
               Contains(Lower(Get(reqs, "time_to_market", "Unknown")), "month"),
               Dec(1, 1)))

OA_evaluate_feasibility(o) == OA_feasibility_of(Get(o, "requirements", EmptyDict))

\* _evaluate_feasibility raises on o: its requirements are None (JSON null),
\* and  "skills" in requirements  is a TypeError
OA_scoring_raises(o) == IsNone(Get(o, "requirements", EmptyDict))

OA_risk_count_bonus(score, risks) ==
    IF Len(risks) <= 2 THEN FAdd(score, Dec(3, 1))
    ELSE IF Len(risks) <= 4 THEN FAdd(score, Dec(1, 1))
    ELSE score

OA_evaluate_risks(o) ==
    FMin(Dec(1, 0), OA_risk_count_bonus(Dec(5, 1), Get(o, "risks", <<>>)))

OA_evaluate_profitability(o) ==
    FMin(Dec(1, 0),
         AddIf(Dec(5, 1),
               "market" \in DOMAIN o /\ o["market"] \in {"saas", "digital_products"},
               Dec(2, 1)))

(***************************************************************************)
(* MoneyEvaluationActivity: criteria and scorers.                          *)
(***************************************************************************)
ME_init_criteria ==
    [market_potential |-> [weight |-> Dec(3, 1)],
     feasibility      |-> [weight |-> Dec(25, 2)],
     risk_level       |-> [weight |-> Dec(25, 2)],
     profitability    |-> [weight |-> Dec(2, 1)]]

\* sector and insight are the lowercased fields of the opportunity
ME_market_potential_of(sector, insight) ==
    FMin(Dec(1, 0),
         AddIf(AddIf(AddIf(Dec(5, 1),
                           ContainsAny(sector, <<"technology", "digital_transformation",
                                                 "ai", "sustainability">>),
                           Dec(2, 1)),
                     Contains(insight, "growing market") \/ Contains(insight, "high demand"),
                     Dec(1, 1)),
               Contains(insight, "emerging") \/ Contains(insight, "innovative"),
               Dec(1, 1)))

ME_evaluate_market_potential(o) ==
    ME_market_potential_of(Lower(Get(o, "sector", "")), Lower(Get(o, "insight", "")))

ME_feasibility_of(sector, reqs) ==
    FMin(Dec(1, 0),
         AddIf(AddIf(Dec(5, 1),
                     ContainsAny(sector, <<"software", "digital", "online", "saas">>),
                     Dec(2, 1)),
               Len(Get(reqs, "skills", <<>>)) <= 2,
               Dec(1, 1)))

ME_evaluate_feasibility(o) ==
    ME_feasibility_of(Lower(Get(o, "sector", "")), Get(o, "requirements", EmptyDict))

ME_risks_of(sector, insight) ==
    FMin(Dec(1, 0),
         FMax(FZero,
              SubIf(AddIf(AddIf(Dec(5, 1),
                                ContainsAny(sector, <<"essential_services", "b2b",
                                                      "enterprise">>),
                                Dec(2, 1)),
                          Contains(insight, "proven") \/ Contains(insight, "established"),
                          Dec(1, 1)),
                    Contains(insight, "risky") \/ Contains(insight, "uncertain"),
                    Dec(1, 1))))

ME_evaluate_risks(o) ==
    ME_risks_of(Lower(Get(o, "sector", "")), Lower(Get(o, "insight", "")))

ME_profitability_of(sector, insight) ==
    FMin(Dec(1, 0),
         FMax(FZero,
              SubIf(AddIf(AddIf(Dec(5, 1),
                                ContainsAny(sector, <<"saas", "digital_products",
                                                      "consulting">>),
                                Dec(2, 1)),
                          Contains(insight, "profitable") \/ Contains(insight, "revenue"),
                          Dec(1, 1)),
                    Contains(insight, "competitive") \/ Contains(insight, "saturated"),
                    Dec(1, 1))))

ME_evaluate_profitability(o) ==
    ME_profitability_of(Lower(Get(o, "sector", "")), Lower(Get(o, "insight", "")))


(***************************************************************************)
(* Aggregation, sorting, prioritisation and action plans.                  *)
(***************************************************************************)
\* sum(score * criteria[criterion]["weight"] for criterion, score in
\* scores.items()): a left-to-right float sum starting from the int 0
RECURSIVE WeightedSumTo(_, _, _)
WeightedSumTo(scores, criteria, i) ==
    IF i = 0 THEN FZero
    ELSE FAdd(WeightedSumTo(scores, criteria, i - 1),
              FMul(scores[CriteriaOrder[i]], criteria[CriteriaOrder[i]].weight))

WeightedSum(scores, criteria) == WeightedSumTo(scores, criteria, Len(CriteriaOrder))

\* variant: no sorting, every item is left where the input had it
InsertLast(sorted, e) == sorted \o <<e>>

\* variant: an item is placed before the items of equal score (the order
\* that sorting ascending and reversing the list gives)
RECURSIVE InsertBeforeEqual(_, _)
InsertBeforeEqual(sorted, e) ==
    IF sorted = <<>> THEN <<e>>
    ELSE IF FLe(Head(sorted)["overall_score"], e["overall_score"])
         THEN <<e>> \o sorted
         ELSE <<Head(sorted)>> \o InsertBeforeEqual(Tail(sorted), e)

\* sorted(items, key=lambda e: e["overall_score"], reverse=True): a stable
\* sort, so items of equal score keep their input order
RECURSIVE InsertDesc(_, _)
InsertDesc(sorted, e) ==
    IF sorted = <<>> THEN <<e>>
    ELSE IF FLt(Head(sorted)["overall_score"], e["overall_score"])
         THEN <<e>> \o sorted
         ELSE <<Head(sorted)>> \o InsertDesc(Tail(sorted), e)

RECURSIVE SortedDescTo(_, _)
SortedDescTo(items, i) ==
    IF i = 0 THEN <<>> ELSE InsertDesc(SortedDescTo(items, i - 1), items[i])

SortedDesc(items) == SortedDescTo(items, Len(items))

\* the body of the loop of OpportunityAnalyzerActivity._analyze_opportunities
OA_scores(o) ==
    [market_potential |-> OA_evaluate_market_potential(o),
     feasibility      |-> OA_evaluate_feasibility(o),
     risk_level       |-> OA_evaluate_risks(o),
     profitability    |-> OA_evaluate_profitability(o)]

\* analyzed_opportunity = {**opportunity, "scores": scores, "overall_score": ..}
OA_analyzed(o, scores, total_score) ==
    Put(Put(o, "scores", scores), "overall_score", Round2(total_score))

OA_scored(o, scores, criteria) == OA_analyzed(o, scores, WeightedSum(scores, criteria))

OA_analyze_one(o, criteria) == OA_scored(o, OA_scores(o), criteria)

\* variant: the cut-offs compared with <= instead of <
OA_priority_inclusive(idx, high_cutoff, medium_cutoff) ==
    IF FLe(FromInt(idx), high_cutoff) THEN "High"
    ELSE IF FLe(FromInt(idx), medium_cutoff) THEN "Medium"
    ELSE "Low"

\* variant: the cut-offs truncated to integers, idx < int(len * 0.2)
OA_priority_truncating(idx, high_cutoff, medium_cutoff) ==
    IF FLe(FromInt(idx + 1), high_cutoff) THEN "High"
    ELSE IF FLe(FromInt(idx + 1), medium_cutoff) THEN "Medium"
    ELSE "Low"

\* the priority of the item at index idx (from 0) of the sorted list, given
\* high_cutoff = len(sorted_opportunities) * 0.2 and
\* medium_cutoff = len(sorted_opportunities) * 0.5
OA_priority(idx, high_cutoff, medium_cutoff) ==
    IF FLt(FromInt(idx), high_cutoff) THEN "High"
    ELSE IF FLt(FromInt(idx), medium_cutoff) THEN "Medium"
    ELSE "Low"

\* the loop over enumerate(sorted_opportunities)
OA_assign_priorities(sorted_opportunities, high_cutoff, medium_cutoff) ==
    [i \in 1..Len(sorted_opportunities) |->
        Put(sorted_opportunities[i], "priority",
            OA_priority(i - 1, high_cutoff, medium_cutoff))]

OA_prioritize_opportunities(analyzed_opportunities) ==
    OA_assign_priorities(SortedDesc(analyzed_opportunities),
                         FMul(FromInt(Len(analyzed_opportunities)), Dec(2, 1)),
                         FMul(FromInt(Len(analyzed_opportunities)), Dec(5, 1)))

OA_create_detailed_plan(o) ==
    [immediate_actions |-> <<"Conduct detailed market analysis",
                             "Identify potential first customers",
                             "Draft initial business plan",
                             "Research regulatory requirements">>,
     required_resources |->
        [estimated_budget |-> "TBD based on market research",
         key_skills |-> Get(Get(o, "requirements", EmptyDict), "skills", <<>>),
         timeline |-> "90 days initial phase"],
     milestones |->
        <<[name |-> "Market Validation", timeline |-> "30 days",
           success_criteria |-> <<"Identified 10+ potential customers",
                                  "Completed competitor analysis",
                                  "Defined unique value proposition">>],
          [name |-> "MVP Planning", timeline |-> "60 days",
           success_criteria |-> <<"Detailed technical requirements",
                                  "Resource plan",
                                  "Initial cost estimates">>]>>]

OA_create_basic_plan(o) ==
    [immediate_actions |-> <<"Monitor market conditions",
                             "Track competitor activities",
                             "Identify potential entry points">>,
     required_resources |->
        [estimated_budget |-> "Minimal - monitoring only",
         key_skills |-> <<"Market research">>,
         timeline |-> "Ongoing monitoring"]]

\* variant: every opportunity is given the basic plan
OA_basic_plans_only(opportunities) ==
    [i \in 1..Len(opportunities) |->
        Put(opportunities[i], "action_plan", OA_create_basic_plan(opportunities[i]))]

OA_generate_action_plans(opportunities) ==
    [i \in 1..Len(opportunities) |->
        Put(opportunities[i], "action_plan",
            IF opportunities[i]["priority"] = "High"
            THEN OA_create_detailed_plan(opportunities[i])
            ELSE OA_create_basic_plan(opportunities[i]))]

\* variant: the thresholds compared with > instead of >=
ME_get_priority_level_strict(score) ==
    IF FLt(Dec(8, 1), score) THEN "High"
    ELSE IF FLt(Dec(6, 1), score) THEN "Medium"
    ELSE "Low"

ME_get_priority_level(score) ==
    IF FLe(Dec(8, 1), score) THEN "High"
    ELSE IF FLe(Dec(6, 1), score) THEN "Medium"
    ELSE "Low"

ME_generate_recommendations(o, scores) ==
    (IF FLt(scores["market_potential"], Dec(6, 1))
     THEN <<"Conduct deeper market research to validate demand and identify specific niches">>
     ELSE <<>>)
    \o (IF FLt(scores["feasibility"], Dec(6, 1))
        THEN <<"Break down implementation into smaller phases to reduce complexity">>
        ELSE <<>>)
    \o (IF FLt(scores["risk_level"], Dec(6, 1))
        THEN <<"Develop risk mitigation strategies and identify potential pivots">>
        ELSE <<>>)
    \o (IF FLt(scores["profitability"], Dec(6, 1))
        THEN <<"Explore additional revenue streams and optimization opportunities">>
        ELSE <<>>)
    \o <<"Create detailed implementation timeline",
         "Identify key partnerships or resources needed",
         "Define clear success metrics">>

\* the body of the loop of MoneyEvaluationActivity._evaluate_opportunities
ME_scores(o) ==
    [market_potential |-> ME_evaluate_market_potential(o),
     feasibility      |-> ME_evaluate_feasibility(o),
     risk_level       |-> ME_evaluate_risks(o),
     profitability    |-> ME_evaluate_profitability(o)]

ME_evaluation(o, scores, total_score) ==
    [opportunity     |-> o,
     scores          |-> scores,
     overall_score   |-> Round2(total_score),
     priority        |-> ME_get_priority_level(total_score),
     recommendations |-> ME_generate_recommendations(o, scores)]

ME_scored(o, scores, criteria) == ME_evaluation(o, scores, WeightedSum(scores, criteria))

ME_evaluate_one(o, criteria) == ME_scored(o, ME_scores(o), criteria)


(***************************************************************************)
(* Bounds and the inputs drawn within them.                                *)
(***************************************************************************)
\* longest opportunities list of a stored market research record
MaxOpps == 2

\* longest list handed to MoneyEvaluationActivity._evaluate_opportunities
MaxEval == 2

\* longest list handed to the rank-based prioritizer on its own
MaxRank == 10

\* last tick of the clock read by datetime.now()
MaxNow == 1

\* _get_priority_level is tried on the scores 0.00, 0.01, .. MaxPct / 100
MaxPct == 100

SeqsUpTo(S, n) == UNION {[1..k -> S] : k \in 0..n}

\* a dict holding the fields of opt (field name -> <<>> or <<value>>) that are present
MkDict(opt) == [k \in {j \in DOMAIN opt : opt[j] # <<>>} |-> opt[k][1]]

RequirementsOpts ==
    {<<>>,
     <<[skills |-> <<>>, initial_investment |-> "Unknown", time_to_market |-> "Unknown"]>>,
     <<[skills |-> <<"AI/ML", "Cloud Architecture", "Web Development">>,
        time_to_market |-> "6 Months"]>>,
     <<[initial_investment |-> "Unknown"]>>,
     <<[skills |-> <<"a", "b", "c", "d", "e">>, time_to_market |-> "2 years"]>>}

\* the opportunity records the analyzer's scorers are tried on: every
\* combination of each field being absent or holding one of a few texts
OAInputs ==
    {MkDict(opt) : opt \in
        [market       : {<<>>, <<"saas">>, <<"SaaS">>, <<"consulting">>},
         market_size  : {<<>>, <<"$5 Trillion">>, <<"$2 billion">>},
         growth_rate  : {<<>>, <<"25% CAGR">>, <<" 15 %">>, <<"20%">>, <<"fast%">>},
         requirements : RequirementsOpts,
         risks        : {<<>>, <<(<<>>)>>, <<(<<"r1", "r2", "r3">>)>>,
                         <<(<<"r1", "r2", "r3", "r4", "r5">>)>>}]}

\* the opportunity records the money evaluation's scorers are tried on
MEInputs ==
    {MkDict(opt) : opt \in
        [sector       : {<<>>, <<"Technology B2B SaaS">>, <<"technology">>,
                         <<"Consulting">>, <<"retail">>},
         insight      : {<<>>, <<"Growing market, proven and profitable">>,
                         <<"Emerging growing market; risky and competitive">>,
                         <<"Innovative. High demand! Established revenue">>,
                         <<"nothing special">>},
         requirements : RequirementsOpts]}

\* the first opportunity of the fixture of tests/test_opportunity_analyzer.py
OppAnalytics ==
    [market |-> "saas", type |-> "trend_based",
     title |-> "AI-Powered Analytics Platform",
     insight |-> "Growing demand for AI analytics in business",
     market_size |-> "$5 billion", growth_rate |-> "25% CAGR",
     requirements |-> [skills |-> <<"AI/ML", "Cloud Architecture">>,
                       time_to_market |-> "6 months"],
     risks |-> <<"Technical complexity", "Market competition">>]

\* the opportunities a stored research record may list and the prioritizer
\* is tried on: the fixture's first (overall score 0.84) and the empty
\* record (0.66)
OAListOpps == {OppAnalytics, EmptyDict}

\* the opportunities of the lists _evaluate_opportunities is tried on
MEListOpps ==
    {[type |-> "news_based", sector |-> "Technology B2B SaaS", title |-> "t1",
      insight |-> "Growing market, proven and profitable", source |-> "s1", url |-> "",
      requirements |-> [skills |-> <<>>, initial_investment |-> "Unknown",
                        time_to_market |-> "Unknown"]],
     [type |-> "news_based", sector |-> "technology", title |-> "t2",
      insight |-> "Emerging growing market; risky and competitive", source |-> "s2",
      url |-> "",
      requirements |-> [skills |-> <<>>, initial_investment |-> "Unknown",
                        time_to_market |-> "Unknown"]]}

(***************************************************************************)
(* The per-opportunity results for the list opportunities under the        *)
(* criteria of __init__ are computed once and looked up afterwards.        *)
(***************************************************************************)
OA_analysis_table ==
    {<<o, OA_analyze_one(o, OA_init_criteria)>> : o \in OAListOpps}

ME_evaluation_table ==
    {<<o, ME_evaluate_one(o, ME_init_criteria)>> : o \in MEListOpps}

Lookup(table, o) == (CHOOSE p \in table : p[1] = o)[2]

OA_analyze_opportunities(opps, criteria) ==
    [i \in 1..Len(opps) |->
        IF criteria = OA_init_criteria /\ opps[i] \in OAListOpps
        THEN Lookup(OA_analysis_table, opps[i])
        ELSE OA_analyze_one(opps[i], criteria)]

\* the loop of _evaluate_opportunities: one evaluation per opportunity
ME_evaluate_each(opps, criteria) ==
    [i \in 1..Len(opps) |->
        IF criteria = ME_init_criteria /\ opps[i] \in MEListOpps
        THEN Lookup(ME_evaluation_table, opps[i])
        ELSE ME_evaluate_one(opps[i], criteria)]

ME_evaluate_opportunities(opps, criteria) == SortedDesc(ME_evaluate_each(opps, criteria))


(***************************************************************************)
(* State.                                                                  *)
(***************************************************************************)
VARIABLES
    store,        \* shared_data, namespace "memory": key -> <<>> (None) or <<value>>
    now,          \* the clock datetime.now() reads, in hours
    oa_criteria,  \* OpportunityAnalyzerActivity.evaluation_criteria
    me_criteria,  \* MoneyEvaluationActivity.evaluation_criteria
    result,       \* what the activity that ran last returned
    call          \* a call of one method on its own: [fn, arg, ret]

vars == <<store, now, oa_criteria, me_criteria, result, call>>

StoreKeys ==
    {"latest_market_research", "latest_opportunity_analysis",
     "latest_news", "latest_mock_tweet", "latest_money_evaluation"}

NoResult == [activity |-> "none"]

NoCall == [fn |-> "none", arg |-> <<>>, ret |-> <<>>]

TwoDigits(n) == CharAt(DigitChars, (n \div 10) + 1) \o CharAt(DigitChars, (n % 10) + 1)

\* datetime.isoformat() of the clock: hour t counted from 2025-01-01T00:00:00
IsoFormat(t) ==
    "2025-01-" \o TwoDigits(1 + (t \div 24)) \o "T" \o TwoDigits(t % 24) \o ":00:00"

\* Python truth of a stored value: None and the empty dict are false
Truthy(opt) == opt # <<>> /\ DOMAIN opt[1] # {}

Init ==
    /\ store = [k \in StoreKeys |-> <<>>]
    /\ now = 0
    /\ oa_criteria = OA_init_criteria
    /\ me_criteria = ME_init_criteria
    /\ result = NoResult
    /\ call = NoCall

(***************************************************************************)
(* The pipeline: Spec.                                                     *)
(***************************************************************************)
Tick ==
    /\ now < MaxNow
    /\ now' = now + 1
    /\ UNCHANGED <<store, oa_criteria, me_criteria, result, call>>

\* The upstream collaborator stores a research record (as the fixture of the
\* tests and MarketResearchActivity.execute do): a timestamp and, unless
\* withOpps is FALSE, a list of opportunities.
StoreMarketResearch(opps, withOpps) ==
    /\ store' = [store EXCEPT !["latest_market_research"] =
                    <<IF withOpps
                      THEN [timestamp |-> IsoFormat(now), opportunities |-> opps]
                      ELSE [timestamp |-> IsoFormat(now)]>>]
    /\ UNCHANGED <<now, oa_criteria, me_criteria, result, call>>

\* variant: the opportunities are analyzed in place, so the scores, the
\* priority and the plan land in the records of the stored research as well
OAStoreInPlace(analyzed_opportunities, analysis_result) ==
    /\ store' = [store EXCEPT
                    !["latest_opportunity_analysis"] = <<analysis_result>>,
                    !["latest_market_research"] =
                        <<Put(@[1], "opportunities", analysis_result.opportunities)>>]
    /\ result' = [activity |-> "opportunity_analyzer",
                  success  |-> TRUE,
                  data     |-> analysis_result,
                  metadata |->
                     [opportunities_analyzed |-> Len(analyzed_opportunities),
                      timestamp |-> analysis_result.timestamp]]
    /\ UNCHANGED <<now, oa_criteria, me_criteria, call>>

\* the storing of the analysis and the success return of execute
OAStore(analyzed_opportunities, analysis_result) ==
    /\ store' = [store EXCEPT !["latest_opportunity_analysis"] = <<analysis_result>>]
    /\ result' = [activity |-> "opportunity_analyzer",
                  success  |-> TRUE,
                  data     |-> analysis_result,
                  metadata |->
                     [opportunities_analyzed |-> Len(analyzed_opportunities),
                      timestamp |-> analysis_result.timestamp]]
    /\ UNCHANGED <<now, oa_criteria, me_criteria, call>>

\* variant: an empty list of opportunities is refused as an error
OARejectEmpty(analyzed_opportunities) ==
    IF analyzed_opportunities = <<>>
    THEN /\ result' = [activity |-> "opportunity_analyzer",
                       success  |-> FALSE,
                       error    |-> "No opportunities to analyze"]
         /\ UNCHANGED <<store, now, oa_criteria, me_criteria, call>>
    ELSE OAStore(analyzed_opportunities,
                 [timestamp           |-> IsoFormat(now),
                  opportunities       |->
                      OA_generate_action_plans(
                          OA_prioritize_opportunities(analyzed_opportunities)),
                  evaluation_criteria |-> oa_criteria])

\* prioritise, plan and store the analyzed opportunities
OAFinish(analyzed_opportunities) ==
    OAStore(analyzed_opportunities,
            [timestamp           |-> IsoFormat(now),
             opportunities       |->
                 OA_generate_action_plans(
                     OA_prioritize_opportunities(analyzed_opportunities)),
             evaluation_criteria |-> oa_criteria])

\* variant: missing research is analyzed as an empty list of opportunities
OAFailAsEmpty == OAFinish(<<>>)

\* the failure return of OpportunityAnalyzerActivity.execute
OAFail ==
    /\ result' = [activity |-> "opportunity_analyzer",
                  success  |-> FALSE,
                  error    |-> "No market research data available"]
    /\ UNCHANGED <<store, now, oa_criteria, me_criteria, call>>

\* the except branch of execute: the exception e is logged and returned as
\* a failure carrying str(e)
OAError(error) ==
    /\ result' = [activity |-> "opportunity_analyzer",
                  success  |-> FALSE,
                  error    |-> error]
    /\ UNCHANGED <<store, now, oa_criteria, me_criteria, call>>

\* the body of execute once it holds the opportunities of the research
\* record: the first exception of a scorer leaves the loop of
\* _analyze_opportunities and execute altogether
OAAnalyze(opps) ==
    IF \E i \in 1..Len(opps) : OA_scoring_raises(opps[i])
    THEN OAError(NoneNotIterable)
    ELSE OAFinish(OA_analyze_opportunities(opps, oa_criteria))

\* OpportunityAnalyzerActivity.execute
OAExecute ==
    IF ~Truthy(store["latest_market_research"])
    THEN OAFail
    ELSE OAAnalyze(Get(store["latest_market_research"][1], "opportunities", <<>>))

\* MoneyEvaluationActivity._evaluate_opportunities on the list opps that
\* _analyze_opportunities hands to it
MEEvaluate(opps) ==
    /\ result' = [activity      |-> "money_evaluation",
                  opportunities |-> opps,
                  evaluations   |-> ME_evaluate_opportunities(opps, me_criteria)]
    /\ UNCHANGED <<store, now, oa_criteria, me_criteria, call>>

Next ==
    \/ Tick
    \/ \E opps \in SeqsUpTo(OAListOpps, MaxOpps) : StoreMarketResearch(opps, TRUE)
    \/ StoreMarketResearch(<<>>, FALSE)
    \/ OAExecute
    \/ \E opps \in SeqsUpTo(MEListOpps, MaxEval) : MEEvaluate(opps)

Spec == Init /\ [][Next]_vars

(***************************************************************************)
(* Single methods on inputs drawn by the initial state: SpecFn, SpecRank.  *)
(***************************************************************************)
OAScorerNames ==
    {"OA._evaluate_market_potential", "OA._evaluate_feasibility",
     "OA._evaluate_risks", "OA._evaluate_profitability"}

MEScorerNames ==
    {"ME._evaluate_market_potential", "ME._evaluate_feasibility",
     "ME._evaluate_risks", "ME._evaluate_profitability"}

\* the scores _get_priority_level is tried on: the hundredths, and every
\* unrounded total the money evaluation computes for its inputs
LevelInputs ==
    {Dec(k, 2) : k \in 0..MaxPct}
    \cup {WeightedSum(ME_scores(o), ME_init_criteria) : o \in MEInputs}

FnInputs ==
    (OAScorerNames \X OAInputs)
    \cup (MEScorerNames \X MEInputs)
    \cup ({"ME._get_priority_level"} \X LevelInputs)

InitFn ==
    /\ store = [k \in StoreKeys |-> <<>>]
    /\ now = 0
    /\ oa_criteria = OA_init_criteria
    /\ me_criteria = ME_init_criteria
    /\ result = NoResult
    /\ call \in {[fn |-> p[1], arg |-> p[2], ret |-> <<>>] : p \in FnInputs}

Pending(fn) == call.fn = fn /\ call.ret = <<>>

Return(v) ==
    /\ call' = [call EXCEPT !.ret = <<v>>]
    /\ UNCHANGED <<store, now, oa_criteria, me_criteria, result>>

CallOAMarketPotential ==
    Pending("OA._evaluate_market_potential")
    /\ Return(OA_evaluate_market_potential(call.arg))

CallOAFeasibility ==
    Pending("OA._evaluate_feasibility") /\ Return(OA_evaluate_feasibility(call.arg))

CallOARisks ==
    Pending("OA._evaluate_risks") /\ Return(OA_evaluate_risks(call.arg))

CallOAProfitability ==
    Pending("OA._evaluate_profitability") /\ Return(OA_evaluate_profitability(call.arg))

CallMEMarketPotential ==
    Pending("ME._evaluate_market_potential")
    /\ Return(ME_evaluate_market_potential(call.arg))

CallMEFeasibility ==
    Pending("ME._evaluate_feasibility") /\ Return(ME_evaluate_feasibility(call.arg))

CallMERisks ==
    Pending("ME._evaluate_risks") /\ Return(ME_evaluate_risks(call.arg))

CallMEProfitability ==
    Pending("ME._evaluate_profitability") /\ Return(ME_evaluate_profitability(call.arg))

CallMEGetPriorityLevel ==
    Pending("ME._get_priority_level") /\ Return(ME_get_priority_level(call.arg))

NextFn ==
    \/ CallOAMarketPotential
    \/ CallOAFeasibility
    \/ CallOARisks
    \/ CallOAProfitability
    \/ CallMEMarketPotential
    \/ CallMEFeasibility
    \/ CallMERisks
    \/ CallMEProfitability
    \/ CallMEGetPriorityLevel

SpecFn == InitFn /\ [][NextFn]_vars

\* the prioritizer on every list of up to MaxRank analyzed opportunities
InitRank ==
    /\ store = [k \in StoreKeys |-> <<>>]
    /\ now = 0
    /\ oa_criteria = OA_init_criteria
    /\ me_criteria = ME_init_criteria
    /\ result = NoResult
    /\ call \in {[fn  |-> "OA._prioritize_opportunities",
                  arg |-> OA_analyze_opportunities(opps, OA_init_criteria),
                  ret |-> <<>>] : opps \in SeqsUpTo(OAListOpps, MaxRank)}

CallOAPrioritize ==
    Pending("OA._prioritize_opportunities")
    /\ Return(OA_prioritize_opportunities(call.arg))

NextRank == CallOAPrioritize

SpecRank == InitRank /\ [][NextRank]_vars

(***************************************************************************)
(* Properties.                                                             *)
(***************************************************************************)
\* 0.0 <= v <= 1.0
InUnit(v) == ~FLt(v, FZero) /\ ~FLt(Dec(1, 0), v)

Returned(fn) == call.fn = fn /\ call.ret # <<>>

\* C1: on every opportunity record, the empty one and those missing fields
\* included, each of the four scorers of both activities returns a value
\* in [0, 1].
C1_ScoreBounds ==
    \A fn \in OAScorerNames \cup MEScorerNames : Returned(fn) => InUnit(call.ret[1])

\* a scorer has returned for the empty record
C1_Witness ==
    /\ call.fn \in OAScorerNames \cup MEScorerNames
    /\ call.ret # <<>>
    /\ call.arg = EmptyDict

WeightsOf(criteria) == [i \in 1..Len(CriteriaOrder) |-> criteria[CriteriaOrder[i]].weight]

\* 0.3, 0.25, 0.25, 0.2
SpecWeights == <<Dec(3, 1), Dec(25, 2), Dec(25, 2), Dec(2, 1)>>

SumLeftToRight(w) == FAdd(FAdd(FAdd(w[1], w[2]), w[3]), w[4])

\* C2: in every reachable state the four weights of both activities are
\* 0.3, 0.25, 0.25, 0.2 and their float sum is exactly 1.0.
C2_Weights ==
    /\ WeightsOf(oa_criteria) = SpecWeights
    /\ WeightsOf(me_criteria) = SpecWeights
    /\ SumLeftToRight(WeightsOf(oa_criteria)) = FromInt(1)
    /\ SumLeftToRight(WeightsOf(me_criteria)) = FromInt(1)

OASucceeded == result.activity = "opportunity_analyzer" /\ result.success

MEReturned == result.activity = "money_evaluation"

\* the analyzer has stored an analysis and the money evaluation has run after it
C2_Witness ==
    /\ MEReturned
    /\ result.evaluations # <<>>
    /\ store["latest_opportunity_analysis"] # <<>>
    /\ store["latest_opportunity_analysis"][1].opportunities # <<>>

\* the fraction of the exact product h = 100 * total
FracOf(h) == [h EXCEPT ![6] = 0]

\* r is a decimal with two places at distance <= 0.005 of total
IsRoundedTo2(r, total) ==
    \E k \in 0..100 :
        /\ r = Dec(k, 2)
        /\ \/ k = MulSmall(total, 100)[6] /\ ~FLt(FHalf, FracOf(MulSmall(total, 100)))
           \/ k = MulSmall(total, 100)[6] + 1 /\ ~FLt(FracOf(MulSmall(total, 100)), FHalf)

\* C3: every opportunity of the result of execute carries a scores map with
\* exactly the four criteria as keys and an overall_score that is the
\* weighted sum of the four scores rounded to 2 decimals and lies in [0, 1].
C3_Aggregate ==
    OASucceeded =>
        \A i \in 1..Len(result.data.opportunities) :
            /\ DOMAIN result.data.opportunities[i].scores
                   = {CriteriaOrder[j] : j \in 1..Len(CriteriaOrder)}
            /\ IsRoundedTo2(result.data.opportunities[i].overall_score,
                            WeightedSum(result.data.opportunities[i].scores, oa_criteria))
            /\ InUnit(result.data.opportunities[i].overall_score)

\* execute has returned two opportunities, the fixture's scored 0.84
C3_Witness ==
    /\ OASucceeded
    /\ Len(result.data.opportunities) = 2
    /\ result.data.opportunities[1].overall_score = Dec(84, 2)

Without(d, keys) == [k \in DOMAIN d \ keys |-> d[k]]

IsPermutationOf(out, inp) ==
    /\ Len(out) = Len(inp)
    /\ \E p \in Permutations(1..Len(inp)) : \A i \in 1..Len(inp) : out[i] = inp[p[i]]

NonIncreasing(items) ==
    \A i \in 1..(Len(items) - 1) :
        ~FLt(items[i].overall_score, items[i + 1].overall_score)

\* a step of execute on a stored research record returns the scored
\* opportunities of the record, reordered by overall_score non-increasing
\* (a step that leaves the clock and the stored research alone and ends in a
\* result of the analyzer is looked at more closely: is it a step of execute)
C4_OAStep ==
    (/\ result'.activity = "opportunity_analyzer"
     /\ now' = now
     /\ store'["latest_market_research"] = store["latest_market_research"]
     /\ Truthy(store["latest_market_research"])
     /\ OAExecute) =>
        /\ IsPermutationOf(
               [i \in 1..Len(result'.data.opportunities) |->
                   Without(result'.data.opportunities[i], {"priority", "action_plan"})],
               OA_analyze_opportunities(
                   Get(store["latest_market_research"][1], "opportunities", <<>>),
                   oa_criteria))
        /\ NonIncreasing(result'.data.opportunities)

C4_MEState ==
    MEReturned =>
        /\ IsPermutationOf(result.evaluations,
                           ME_evaluate_each(result.opportunities, me_criteria))
        /\ NonIncreasing(result.evaluations)

\* C4: the list returned by OpportunityAnalyzerActivity.execute and the list
\* returned by MoneyEvaluationActivity._evaluate_opportunities are, for every
\* input list, a permutation of the scored inputs in non-increasing order of
\* overall_score.
C4_Sorted == [][C4_OAStep]_vars /\ []C4_MEState

\* both sorts have reordered their input: the stored research lists the
\* empty record before the fixture's and the stored analysis the fixture's
\* first; the evaluations begin with the second opportunity handed in
C4_Witness ==
    /\ MEReturned
    /\ Len(result.evaluations) = 2
    /\ result.evaluations[1].opportunity = result.opportunities[2]
    /\ result.evaluations[1].opportunity # result.opportunities[1]
    /\ store["latest_market_research"] # <<>>
    /\ Get(store["latest_market_research"][1], "opportunities", <<>>)
           = <<EmptyDict, OppAnalytics>>
    /\ store["latest_opportunity_analysis"] # <<>>
    /\ Len(store["latest_opportunity_analysis"][1].opportunities) = 2
    /\ DOMAIN OppAnalytics
           \subseteq DOMAIN store["latest_opportunity_analysis"][1].opportunities[1]

OAFailure ==
    [activity |-> "opportunity_analyzer",
     success  |-> FALSE,
     error    |-> "No market research data available"]

\* C5: when the memory holds no value under latest_market_research, execute
\* returns the failure "No market research data available" (not a success
\* with an empty list) and leaves the memory, latest_opportunity_analysis
\* included, as it was.
C5_NoResearch ==
    [][(store["latest_market_research"] = <<>> /\ OAExecute) =>
           (result' = OAFailure /\ store' = store)]_vars

\* execute has failed on a memory that holds neither research nor analysis
C5_Witness ==
    /\ result = OAFailure
    /\ store["latest_market_research"] = <<>>
    /\ store["latest_opportunity_analysis"] = <<>>

\* C6: on a stored research record whose opportunities list is empty or
\* absent, execute succeeds, and returns and stores an analysis result whose
\* opportunities list is empty.
C6_EmptyInput ==
    [][(/\ Truthy(store["latest_market_research"])
        /\ Get(store["latest_market_research"][1], "opportunities", <<>>) = <<>>
        /\ OAExecute) =>
           (/\ result'.activity = "opportunity_analyzer"
            /\ result'.success
            /\ result'.data.opportunities = <<>>
            /\ result'.metadata.opportunities_analyzed = 0
            /\ store'["latest_opportunity_analysis"] = <<result'.data>>)]_vars

\* execute has succeeded with no opportunities on a research record that has
\* no opportunities field, and the analysis is stored
C6_Witness ==
    /\ OASucceeded
    /\ result.data.opportunities = <<>>
    /\ store["latest_opportunity_analysis"] = <<result.data>>
    /\ store["latest_market_research"] # <<>>
    /\ ~("opportunities" \in DOMAIN store["latest_market_research"][1])

\* the tier of the hundredth k / 100 under the thresholds 0.8 and 0.6
TierOfHundredth(k) == IF k >= 80 THEN "High" ELSE IF k >= 60 THEN "Medium" ELSE "Low"

\* the tier of a score under the thresholds 0.8 and 0.6, both inclusive
TierOf(score) ==
    IF ~FLt(score, Dec(8, 1)) THEN "High"
    ELSE IF ~FLt(score, Dec(6, 1)) THEN "Medium"
    ELSE "Low"

\* C7: _get_priority_level maps s >= 0.8 to High, 0.6 <= s < 0.8 to Medium
\* and s < 0.6 to Low; 0.8 itself is High and 0.6 itself is Medium.
C7_Thresholds ==
    Returned("ME._get_priority_level") =>
        /\ call.ret[1] = TierOf(call.arg)
        /\ \A k \in 0..100 : call.arg = Dec(k, 2) => call.ret[1] = TierOfHundredth(k)

\* _get_priority_level has returned High for 0.8 itself
C7_Witness ==
    /\ Returned("ME._get_priority_level")
    /\ call.arg = Dec(8, 1)
    /\ call.ret[1] = "High"

\* C8: in every evaluation returned by _evaluate_opportunities the priority
\* is the threshold tier of the record's own overall_score.
C8_PriorityOfReported ==
    MEReturned =>
        \A i \in 1..Len(result.evaluations) :
            result.evaluations[i].priority = TierOf(result.evaluations[i].overall_score)

PrioritiesOf(items) == [i \in 1..Len(items) |-> items[i].priority]

\* C9: of exactly 10 analyzed opportunities the prioritizer makes the 2
\* highest-ranked High, the next 3 Medium and the remaining 5 Low.
C9_TenItems ==
    (Returned("OA._prioritize_opportunities") /\ Len(call.arg) = 10) =>
        /\ NonIncreasing(call.ret[1])
        /\ PrioritiesOf(call.ret[1])
               = <<"High", "High", "Medium", "Medium", "Medium",
                   "Low", "Low", "Low", "Low", "Low">>

\* the prioritizer has returned for a list of 10 whose scores are not all equal
C9_Witness ==
    /\ Returned("OA._prioritize_opportunities")
    /\ Len(call.arg) = 10
    /\ call.ret[1][2].overall_score # call.ret[1][10].overall_score
    /\ call.ret[1][10].priority = "Low"

C11_SomeHigh ==
    (OASucceeded /\ result.data.opportunities # <<>>) =>
        \E i \in 1..Len(result.data.opportunities) :
            result.data.opportunities[i].priority = "High"

\* execute has returned two opportunities, the first High and the second not
C11_Witness ==
    /\ OASucceeded
    /\ Len(result.data.opportunities) = 2
    /\ result.data.opportunities[1].priority = "High"
    /\ result.data.opportunities[2].priority # "High"

(***************************************************************************)
(* The two sorts on lists whose items can be told apart: SpecStable.       *)
(***************************************************************************)
\* longest list the two sorts are tried on with every item tagged
MaxTie == 4

\* the second opportunity of the fixture of tests/test_opportunity_analyzer.py
\* (overall score 0.79)
OppCourse ==
    [market |-> "digital_products", type |-> "news_based",
     title |-> "Online Course Platform",
     insight |-> "Surge in remote learning demand",
     market_size |-> "$350 million", growth_rate |-> "15% CAGR",
     requirements |-> [skills |-> <<"Web Development">>,
                       time_to_market |-> "3 months"],
     risks |-> <<"Market saturation">>]

\* the opportunity of the end-to-end scenario
OppScenario ==
    [sector |-> "technology", insight |-> "growing market with high demand",
     market_size |-> "$5 trillion", growth_rate |-> "25%"]

\* an opportunity whose requirements are null: scoring it raises
OppNullRequirements ==
    [market |-> "saas", title |-> "Untitled", requirements |-> PyNone]

\* the title given to the item at position i of an input list
Tag(i) == CharAt(DigitChars, i + 1)

\* every list of up to n opportunities drawn from bases, the item at
\* position i titled Tag(i): items of equal score stay distinguishable
TaggedLists(bases, n) ==
    UNION {{[i \in 1..k |-> Put(f[i], "title", Tag(i))] : f \in [1..k -> bases]} : k \in 0..n}

InitStable ==
    /\ store = [k \in StoreKeys |-> <<>>]
    /\ now = 0
    /\ oa_criteria = OA_init_criteria
    /\ me_criteria = ME_init_criteria
    /\ result = NoResult
    /\ call \in
         {[fn  |-> "OA._prioritize_opportunities",
           arg |-> OA_analyze_opportunities(opps, OA_init_criteria),
           ret |-> <<>>] : opps \in TaggedLists(OAListOpps \cup {OppCourse}, MaxTie)}
         \cup
         {[fn  |-> "ME._evaluate_opportunities", arg |-> opps, ret |-> <<>>] :
             opps \in TaggedLists(MEListOpps, MaxTie)}
         \cup
         {[fn |-> "ME._evaluate_opportunities", arg |-> <<OppScenario>>, ret |-> <<>>]}

CallMEEvaluateOpportunities ==
    Pending("ME._evaluate_opportunities")
    /\ Return(ME_evaluate_opportunities(call.arg, me_criteria))

NextStable ==
    \/ CallOAPrioritize
    \/ CallMEEvaluateOpportunities

SpecStable == InitStable /\ [][NextStable]_vars

\* the position in the input list inp of the opportunity titled title
InputIndex(inp, title) == CHOOSE k \in 1..Len(inp) : inp[k].title = title

\* items of equal overall_score stand in out in the order of their titles'
\* positions in the input list inp; titleOf reads the title of an item of out
TiesKeepInputOrder(out, inp, titleOf(_)) ==
    \A i \in 1..Len(out) : \A j \in (i + 1)..Len(out) :
        out[i].overall_score = out[j].overall_score =>
            InputIndex(inp, titleOf(out[i])) < InputIndex(inp, titleOf(out[j]))

TitleOfOpportunity(item) == item.title

TitleOfEvaluation(item) == item.opportunity.title

\* C12: in the output of the rank-based prioritizer and in the output of the
\* money evaluation's sort, two items of equal overall_score stand in the
\* relative order they had in the input list.
C12_Stable ==
    /\ Returned("OA._prioritize_opportunities") =>
           TiesKeepInputOrder(call.ret[1], call.arg, TitleOfOpportunity)
    /\ Returned("ME._evaluate_opportunities") =>
           TiesKeepInputOrder(call.ret[1], call.arg, TitleOfEvaluation)

\* the prioritizer has moved a higher-scored item in front of two items of
\* equal score, which kept their order
C12_Witness ==
    /\ Returned("OA._prioritize_opportunities")
    /\ Len(call.arg) = 3
    /\ call.arg[1].overall_score = call.arg[3].overall_score
    /\ FLt(call.arg[1].overall_score, call.arg[2].overall_score)
    /\ call.ret[1][1].title = call.arg[2].title
    /\ call.ret[1][2].title = call.arg[1].title
    /\ call.ret[1][3].title = call.arg[3].title

(***************************************************************************)
(* execute on a memory that already holds a research record: SpecExec.     *)
(***************************************************************************)
\* The upstream collaborator has stored a research record listing up to
\* MaxTie opportunities (the fixture's two, the empty record and one with
\* null requirements, told apart by their titles) before the analyzer runs; the analyzer then runs any
\* number of times while the clock advances.
InitExec ==
    /\ store \in
         {[k \in StoreKeys |->
              IF k = "latest_market_research"
              THEN <<[timestamp |-> IsoFormat(0), opportunities |-> opps]>>
              ELSE <<>>] :
              opps \in TaggedLists(OAListOpps \cup {OppCourse, OppNullRequirements}, MaxTie)}
    /\ now = 0
    /\ oa_criteria = OA_init_criteria
    /\ me_criteria = ME_init_criteria
    /\ result = NoResult
    /\ call = NoCall

NextExec ==
    \/ Tick
    \/ OAExecute

SpecExec == InitExec /\ [][NextExec]_vars

MilestoneNames(plan) == [i \in 1..Len(plan.milestones) |-> plan.milestones[i].name]

MilestoneTimelines(plan) == [i \in 1..Len(plan.milestones) |-> plan.milestones[i].timeline]

\* the shape of the plan of an opportunity o that execute returned
PlanShape(o) ==
    /\ "action_plan" \in DOMAIN o
    /\ {"immediate_actions", "required_resources"} \subseteq DOMAIN o.action_plan
    /\ o.priority \in {"High", "Medium", "Low"}
    /\ IF o.priority = "High"
       THEN /\ "milestones" \in DOMAIN o.action_plan
            /\ MilestoneNames(o.action_plan) = <<"Market Validation", "MVP Planning">>
            /\ MilestoneTimelines(o.action_plan) = <<"30 days", "60 days">>
            /\ Len(o.action_plan.immediate_actions) = 4
       ELSE /\ ~("milestones" \in DOMAIN o.action_plan)
            /\ Len(o.action_plan.immediate_actions) = 3

\* C13: every opportunity execute returns has an action_plan with
\* immediate_actions and required_resources; a High one has exactly the
\* milestones "Market Validation" (30 days) and "MVP Planning" (60 days) and
\* 4 immediate actions, a Medium or Low one 3 immediate actions and no
\* milestones key.
C13_PlanShape ==
    OASucceeded =>
        \A i \in 1..Len(result.data.opportunities) : PlanShape(result.data.opportunities[i])

\* execute has returned a High, a Medium and a Low opportunity
C13_Witness ==
    /\ OASucceeded
    /\ Len(result.data.opportunities) = 3
    /\ result.data.opportunities[1].priority = "High"
    /\ "milestones" \in DOMAIN result.data.opportunities[1].action_plan
    /\ result.data.opportunities[2].priority = "Medium"
    /\ result.data.opportunities[3].priority = "Low"

\* the money evaluation has run on the scenario's single opportunity
ScenarioEvaluated == Returned("ME._evaluate_opportunities") /\ call.arg = <<OppScenario>>

\* the scenario's expectations on an evaluation e of the money evaluation
ScenarioExpected(e) ==
    /\ FLe(Dec(9, 1), e.scores.market_potential)
    /\ e.overall_score = Round2(WeightedSum(e.scores, ME_init_criteria))
    /\ e.priority = "High"

\* the same expectations read on the analyzer's scorers, with the tier of
\* the threshold policy
ScenarioExpectedOfAnalyzer(o) ==
    /\ FLe(Dec(9, 1), OA_evaluate_market_potential(o))
    /\ OA_analyze_one(o, OA_init_criteria).overall_score
           = Round2(WeightedSum(OA_scores(o), OA_init_criteria))
    /\ ME_get_priority_level(WeightedSum(OA_scores(o), OA_init_criteria)) = "High"

\* C14: for the single opportunity of the scenario the pipeline yields a
\* market_potential score of at least 0.9, an overall_score that is the
\* fixed-weight sum of the four scores, and the priority High under the
\* threshold policy (with the scorers of either activity).
C14_Scenario ==
    ScenarioEvaluated =>
        \/ ScenarioExpected(call.ret[1][1])
        \/ ScenarioExpectedOfAnalyzer(call.arg[1])

\* a step of execute on the stored research record
ExecuteStep ==
    /\ result'.activity = "opportunity_analyzer"
    /\ now' = now
    /\ OAExecute

\* C15: scoring is pure.  A run of execute leaves the stored research record
\* and its opportunity records as they were (scores, priority and
\* action_plan go to the run's own copies), and a run that follows a
\* successful run on the same research returns the same opportunities, with
\* the same scores and overall_score.
C15_Pure ==
    [][ExecuteStep =>
           /\ store'["latest_market_research"] = store["latest_market_research"]
           /\ \A i \in 1..Len(store'["latest_market_research"][1].opportunities) :
                  DOMAIN store'["latest_market_research"][1].opportunities[i]
                      \cap {"scores", "overall_score", "priority", "action_plan"} = {}
           /\ OASucceeded => result'.data.opportunities = result.data.opportunities]_vars

\* execute has run at the later time on a research record of three
\* opportunities: its own copies carry the priority, the stored ones do not
C15_Witness ==
    /\ OASucceeded
    /\ result.data.timestamp = IsoFormat(MaxNow)
    /\ Len(result.data.opportunities) = 3
    /\ "priority" \in DOMAIN result.data.opportunities[3]
    /\ Len(store["latest_market_research"][1].opportunities) = 3
    /\ ~("priority" \in DOMAIN store["latest_market_research"][1].opportunities[3])

\* the opportunities of the stored research record
ResearchOpps == Get(store["latest_market_research"][1], "opportunities", <<>>)

\* execute has run on a stored batch in which the scoring of one opportunity
\* raises and that of another does not
MixedBatchRun ==
    /\ result.activity = "opportunity_analyzer"
    /\ store["latest_market_research"] # <<>>
    /\ \E i \in 1..Len(ResearchOpps) : OA_scoring_raises(ResearchOpps[i])
    /\ \E i \in 1..Len(ResearchOpps) : ~OA_scoring_raises(ResearchOpps[i])

\* C16: an error while scoring one opportunity of a batch does not abort the
\* batch: the run succeeds and returns every opportunity whose scoring did
\* not raise.
C16_Isolated ==
    MixedBatchRun =>
        /\ result.success
        /\ \A i \in 1..Len(ResearchOpps) :
               ~OA_scoring_raises(ResearchOpps[i]) =>
                   \E j \in 1..Len(result.data.opportunities) :
                       result.data.opportunities[j].title = ResearchOpps[i].title

\* the value under (memory, latest_opportunity_analysis): <<>> while absent
StoredAnalysis == store["latest_opportunity_analysis"]

AnalysisFields == {"timestamp", "opportunities", "evaluation_criteria"}

\* a step in which execute returned a new successful result
SuccessStep ==
    /\ result' # result
    /\ result'.activity = "opportunity_analyzer"
    /\ result'.success

\* C17: a successful execute of the analyzer writes the one entry
\* (memory, latest_opportunity_analysis), whose value is the complete result
\* of that run (the timestamp of the run, one opportunity per opportunity of
\* the research, the criteria) whatever was stored before, and leaves every
\* other key as it was; at all times the stored value is absent or one
\* complete result.
C17_Wholesale ==
    /\ [][SuccessStep =>
            /\ store' = [store EXCEPT
                            !["latest_opportunity_analysis"] = <<result'.data>>]
            /\ DOMAIN result'.data = AnalysisFields
            /\ result'.data.timestamp = IsoFormat(now)
            /\ result'.data.evaluation_criteria = oa_criteria
            /\ Len(result'.data.opportunities) = Len(ResearchOpps)]_vars
    /\ [](\/ StoredAnalysis = <<>>
          \/ /\ Len(StoredAnalysis) = 1
             /\ DOMAIN StoredAnalysis[1] = AnalysisFields
             /\ StoredAnalysis[1].evaluation_criteria = OA_init_criteria
             /\ \E t \in 0..now : StoredAnalysis[1].timestamp = IsoFormat(t))

\* a run at time 1 has stored its one opportunity, and the research has since
\* been replaced by a record without opportunities
C17_Witness ==
    /\ OASucceeded
    /\ StoredAnalysis = <<result.data>>
    /\ result.data.timestamp = IsoFormat(1)
    /\ Len(result.data.opportunities) = 1
    /\ "opportunities" \notin DOMAIN store["latest_market_research"][1]

\* the text fields whose letter case the scorers are said to ignore
CaseFields == {"market", "sector", "market_size", "growth_rate", "insight"}

\* the record o with each of those fields lower-cased
LowerText(o) ==
    [k \in DOMAIN o |-> IF k \in CaseFields THEN Lower(o[k]) ELSE o[k]]

\* the score the scorer named fn gives to o
ScoreBy(fn, o) ==
    CASE fn = "OA._evaluate_market_potential" -> OA_evaluate_market_potential(o)
      [] fn = "OA._evaluate_feasibility"      -> OA_evaluate_feasibility(o)
      [] fn = "OA._evaluate_risks"            -> OA_evaluate_risks(o)
      [] fn = "OA._evaluate_profitability"    -> OA_evaluate_profitability(o)
      [] fn = "ME._evaluate_market_potential" -> ME_evaluate_market_potential(o)
      [] fn = "ME._evaluate_feasibility"      -> ME_evaluate_feasibility(o)
      [] fn = "ME._evaluate_risks"            -> ME_evaluate_risks(o)
      [] fn = "ME._evaluate_profitability"    -> ME_evaluate_profitability(o)

\* C19: every scorer of both pipelines ignores letter case: the score it
\* returned for an opportunity is the score it gives to the same opportunity
\* with its market, sector, market_size, growth_rate and insight lower-cased.
C19_CaseBlind ==
    (call.ret # <<>> /\ call.fn \in OAScorerNames \cup MEScorerNames) =>
        call.ret[1] = ScoreBy(call.fn, LowerText(call.arg))

(***************************************************************************)
(* MockTweetActivity, and the activities on a shared store: SpecShared.    *)
(***************************************************************************)
\* self.max_tweet_length
max_tweet_length == 280

\* longest title of a stored article
MaxTitle == 300

\* The value under latest_news may be of any Python type, so it and what it
\* holds are kept with their type: a record whose one field is named after
\* the type and holds the value (None is PyNone).
PyStr(s) == [str |-> s]

PyList(items) == [list |-> items]

PyDict(fields) == [dict |-> fields]

\* type(x).__name__
TypeOf(x) == IF IsNone(x) THEN "NoneType" ELSE CHOOSE t \in DOMAIN x : TRUE

\* bool(x)
PyTruthy(x) ==
    CASE TypeOf(x) = "NoneType" -> FALSE
      [] TypeOf(x) = "str"      -> x.str # ""
      [] TypeOf(x) = "list"     -> x.list # <<>>
      [] TypeOf(x) = "dict"     -> DOMAIN x.dict # {}

\* what an f-string makes of x
Format(x) == IF IsNone(x) THEN "None" ELSE x.str

\* the two emoji of the texts, one code point (one unit of len) each
Newspaper == "@"

Robot == "&"

\* shared_data.get("memory", "latest_news", [])
LatestNews ==
    IF store["latest_news"] = <<>> THEN PyList(<<>>) ELSE store["latest_news"][1]

\* the test of _generate_tweet_content for a usable list of news
HasNews(latest_news) ==
    PyTruthy(latest_news) /\ TypeOf(latest_news) = "list" /\ Len(latest_news.list) > 0

\* article.get raises AttributeError when the first item is not a dict
MT_generate_raises(latest_news) ==
    HasNews(latest_news) /\ TypeOf(latest_news.list[1]) # "dict"

\* str(e) of that AttributeError
NoGetAttribute(x) == "'" \o TypeOf(x) \o "' object has no attribute 'get'"

\* variant: the tweet is made of the last item of the news
MT_generate_from_last(latest_news) ==
    IF HasNews(latest_news)
    THEN Newspaper \o " Latest Update: "
         \o Format(Get(latest_news.list[Len(latest_news.list)].dict, "title",
                       PyStr("Interesting news")))
         \o " #News"
    ELSE Robot \o " Just another day of digital being activities! #DigitalLife"

\* MockTweetActivity._generate_tweet_content
MT_generate_tweet_content(latest_news) ==
    IF HasNews(latest_news)
    THEN Newspaper \o " Latest Update: "
         \o Format(Get(latest_news.list[1].dict, "title", PyStr("Interesting news")))
         \o " #News"
    ELSE Robot \o " Just another day of digital being activities! #DigitalLife"

\* variant: the text is cut at the limit and the dots are added after it
MT_cut_at_limit(tweet_content) ==
    IF Len(tweet_content) > max_tweet_length
    THEN SubSeq(tweet_content, 1, max_tweet_length) \o "..."
    ELSE tweet_content

\* the length limit of execute
MT_limit(tweet_content) ==
    IF Len(tweet_content) > max_tweet_length
    THEN SubSeq(tweet_content, 1, max_tweet_length - 3) \o "..."
    ELSE tweet_content

\* the storing of the tweet and the success return of execute
MTStore(tweet_content) ==
    /\ store' = [store EXCEPT !["latest_mock_tweet"] =
                    <<[content |-> tweet_content, timestamp |-> IsoFormat(now)]>>]
    /\ result' = [activity |-> "mock_tweet",
                  success  |-> TRUE,
                  data     |-> [content |-> tweet_content],
                  metadata |-> [length |-> Len(tweet_content)]]
    /\ UNCHANGED <<now, oa_criteria, me_criteria, call>>

\* variant: the exception is swallowed and the fallback text is posted
MTPostFallback(error) ==
    MTStore(MT_limit(MT_generate_tweet_content(PyList(<<>>))))

\* the except branch of execute
MTError(error) ==
    /\ result' = [activity |-> "mock_tweet",
                  success  |-> FALSE,
                  error    |-> error]
    /\ UNCHANGED <<store, now, oa_criteria, me_criteria, call>>

\* MockTweetActivity.execute
MockTweetExecute ==
    IF MT_generate_raises(LatestNews)
    THEN MTError(NoGetAttribute(LatestNews.list[1]))
    ELSE MTStore(MT_limit(MT_generate_tweet_content(LatestNews)))

\* "x" * n
RECURSIVE Xs(_)
Xs(n) ==
    IF n = 0 THEN ""
    ELSE IF n = 1 THEN "x"
    ELSE Xs(n \div 2) \o Xs(n - (n \div 2))

\* an article as FetchNewsActivity stores it and the tests set it up
Article(title) ==
    PyDict([title   |-> PyStr(title),
            topic   |-> PyStr("technology"),
            summary |-> PyStr("This is a test article"),
            url     |-> PyStr("https://example.com/test")])

\* titles: the one of the tests' fixture and runs of x of the lengths on both
\* sides of the limit, up to MaxTitle
Titles ==
    {"", "Test News Article"}
    \cup {Xs(n) : n \in (max_tweet_length - 40)..MaxTitle}

\* what the store may hold under latest_news: nothing, values that are no
\* usable list, lists whose first item is no dict or has no text title, and
\* lists of articles
NewsValues ==
    {<<>>, <<PyNone>>, <<PyList(<<>>)>>, <<PyStr("no news")>>,
     <<PyDict([articles |-> PyList(<<>>)])>>,
     <<PyList(<<PyStr("headline")>>)>>, <<PyList(<<PyNone>>)>>,
     <<PyList(<<PyDict(EmptyDict)>>)>>,
     <<PyList(<<PyDict([title |-> PyNone])>>)>>}
    \cup {<<PyList(<<Article(t)>>)>> : t \in Titles}
    \cup {<<PyList(<<Article(t), Article("older")>>)>> : t \in Titles}

\* what the store may hold under latest_market_research
ResearchValues ==
    {<<>>,
     <<[timestamp |-> IsoFormat(0), opportunities |-> <<OppAnalytics>>]>>,
     <<[timestamp |-> IsoFormat(0),
        opportunities |-> <<OppNullRequirements, EmptyDict>>]>>}

\* the store as the upstream activities left it; then the analyzer and the
\* mock tweet run against it, in any order and any number of times
InitShared ==
    /\ store \in {[k \in StoreKeys |->
                     CASE k = "latest_news"            -> n
                       [] k = "latest_market_research" -> r
                       [] OTHER                        -> <<>>] :
                  n \in NewsValues, r \in ResearchValues}
    /\ now = 0
    /\ oa_criteria = OA_init_criteria
    /\ me_criteria = ME_init_criteria
    /\ result = NoResult
    /\ call = NoCall

NextShared == Tick \/ MockTweetExecute \/ OAExecute

SpecShared == InitShared /\ [][NextShared]_vars

\* the text _generate_tweet_content makes of the stored news
Generated == MT_generate_tweet_content(LatestNews)

TweetPosted == result.activity = "mock_tweet" /\ result.success

\* C20: whatever the store holds, the content MockTweetActivity.execute
\* returns and stores is at most 280 long: the first 277 characters of the
\* generated text followed by "..." (280 in all) when that text is longer
\* than 280, the generated text itself otherwise; the length of the metadata
\* is the length of the content.
C20_Limit ==
    TweetPosted =>
        /\ Len(result.data.content) <= 280
        /\ IF Len(Generated) > 280
           THEN /\ result.data.content = SubSeq(Generated, 1, 277) \o "..."
                /\ Len(result.data.content) = 280
           ELSE result.data.content = Generated
        /\ result.metadata.length = Len(result.data.content)
        /\ store["latest_mock_tweet"] # <<>>
        /\ store["latest_mock_tweet"][1].content = result.data.content

\* the tweet of a title of 300 x has been cut
C20_Witness ==
    /\ TweetPosted
    /\ Len(Generated) = 323
    /\ Len(result.data.content) = 280
    /\ SubSeq(result.data.content, 278, 280) = "..."

\* the stored news make _generate_tweet_content raise
TweetRaises == MT_generate_raises(LatestNews)

\* the stored research makes a scorer of the analyzer raise
AnalysisRaises ==
    /\ Truthy(store["latest_market_research"])
    /\ \E i \in 1..Len(ResearchOpps) : OA_scoring_raises(ResearchOpps[i])

\* an ActivityResult of a failure, with some text as its error
FailureWithMessage ==
    /\ ~result.success
    /\ DOMAIN result = {"activity", "success", "error"}
    /\ Len(result.error) > 0

TweetStep ==
    /\ result'.activity = "mock_tweet"
    /\ result'.success
    /\ result' # result \/ store' # store

\* the text the claim gives for the stored news: the headline of the first
\* article (its title, "Interesting news" when it has none) when the news
\* are a non-empty list, the fixed text otherwise
ClaimedText ==
    IF store["latest_news"] # <<>>
       /\ "list" \in DOMAIN store["latest_news"][1]
       /\ store["latest_news"][1].list # <<>>
    THEN "@ Latest Update: "
         \o (LET article == store["latest_news"][1].list[1].dict
             IN  IF "title" \notin DOMAIN article THEN "Interesting news"
                 ELSE Format(article.title))
         \o " #News"
    ELSE "& Just another day of digital being activities! #DigitalLife"

\* C21: a tweet posted by MockTweetActivity.execute is the headline of the
\* first article of latest_news with the #News tag when latest_news is a
\* non-empty list and the fixed fallback text otherwise (cut to the length
\* limit); the stored content is the returned content, and latest_news and
\* every key but latest_mock_tweet are left as they were.
C21_Content ==
    [][TweetStep =>
          /\ IF Len(ClaimedText) <= 280
             THEN result'.data.content = ClaimedText
             ELSE SubSeq(result'.data.content, 1, 277) = SubSeq(ClaimedText, 1, 277)
          /\ store'["latest_mock_tweet"][1].content = result'.data.content
          /\ store'["latest_news"] = store["latest_news"]
          /\ \A k \in StoreKeys \ {"latest_mock_tweet"} : store'[k] = store[k]]_vars

\* the tweet of the fixture's article, the first of two, has been posted
C21_Witness ==
    /\ TweetPosted
    /\ result.data.content = "@ Latest Update: Test News Article #News"
    /\ Len(LatestNews.list) = 2
    /\ store["latest_mock_tweet"][1].content = result.data.content

(***************************************************************************)
(* MarketResearchSkill.search_market_news: SpecSkill.                      *)
(***************************************************************************)
\* most results in a response of the client
MaxResults == 4

\* largest max_results asked for
MaxAsk == 5

\* variant: the results are not cut
SliceAll(l, m) == l

\* l[:m]
SliceTo(l, m) ==
    IF m >= 0
    THEN SubSeq(l, 1, IF m < Len(l) THEN m ELSE Len(l))
    ELSE SubSeq(l, 1, IF Len(l) + m > 0 THEN Len(l) + m ELSE 0)

\* the dict search_market_news makes of one result of the client
SK_news_item(item) ==
    [title     |-> Get(item, "title", ""),
     summary   |-> Get(item, "snippet", ""),
     url       |-> Get(item, "link", ""),
     source    |-> Get(item, "source", ""),
     timestamp |-> IsoFormat(now)]

\* variant: a response without results gives one empty item
SK_placeholder(response) == <<SK_news_item(EmptyDict)>>

\* the early return for a response without results
SK_no_results(response) == <<>>

\* the loop over the first max_results results; item.get raises on a result
\* that is no dict, and the except branch returns the empty list
SK_news_items(results) ==
    IF \E i \in 1..Len(results) : "str" \in DOMAIN results[i]
    THEN <<>>
    ELSE [i \in 1..Len(results) |-> SK_news_item(results[i])]

\* MarketResearchSkill.search_market_news, given what self.client.search
\* does: it raises, or it returns a response
SK_search_market_news(client, max_results) ==
    IF "raises" \in DOMAIN client THEN <<>>
    ELSE IF ~PyTruthy(client.returns) \/ "results" \notin DOMAIN client.returns.dict
    THEN SK_no_results(client.returns)
    ELSE SK_news_items(SliceTo(client.returns.dict.results, max_results))

\* the results of the client: complete, partial and empty dicts, told apart
\* by their titles, and one that is no dict
ClientResults ==
    {[title |-> "A", snippet |-> "a", link |-> "https://a", source |-> "sa"],
     [title |-> "B", link |-> "https://b"],
     EmptyDict,
     PyStr("C")}

\* what self.client.search may do
ClientOutcomes ==
    {[raises |-> "Unauthorized"]}
    \cup {[returns |-> r] : r \in {PyNone, PyDict(EmptyDict),
                                   PyDict([error |-> "rate limited"])}}
    \cup {[returns |-> PyDict([results |-> l])] :
             l \in SeqsUpTo(ClientResults, MaxResults)}

InitSkill ==
    /\ store = [k \in StoreKeys |-> <<>>]
    /\ now = 0
    /\ oa_criteria = OA_init_criteria
    /\ me_criteria = ME_init_criteria
    /\ result = NoResult
    /\ call \in {[fn |-> "SK.search_market_news",
                  arg |-> [client |-> c, max_results |-> m],
                  ret |-> <<>>] : c \in ClientOutcomes, m \in 0..MaxAsk}

CallSearchMarketNews ==
    Pending("SK.search_market_news")
    /\ Return(SK_search_market_news(call.arg.client, call.arg.max_results))

NextSkill == CallSearchMarketNews

SpecSkill == InitSkill /\ [][NextSkill]_vars

SearchReturned == call.fn = "SK.search_market_news" /\ call.ret # <<>>

\* the client returned a response that lists results, all of them dicts
ListedResults ==
    /\ "returns" \in DOMAIN call.arg.client
    /\ "dict" \in DOMAIN call.arg.client.returns
    /\ "results" \in DOMAIN call.arg.client.returns.dict
    /\ \A i \in 1..Len(call.arg.client.returns.dict.results) :
           "str" \notin DOMAIN call.arg.client.returns.dict.results[i]

NewsItemKeys == {"title", "summary", "url", "source", "timestamp"}

\* C22: search_market_news(query, max_results) returns at most max_results
\* items: one for each of the first max_results results of the response, in
\* the order of the response, each with the keys title, summary, url, source
\* and timestamp.
C22_FirstResults ==
    SearchReturned =>
        /\ Len(call.ret[1]) <= call.arg.max_results
        /\ \A i \in 1..Len(call.ret[1]) : DOMAIN call.ret[1][i] = NewsItemKeys
        /\ ListedResults =>
             LET results == call.arg.client.returns.dict.results
             IN  /\ Len(call.ret[1]) =
                        IF Len(results) < call.arg.max_results
                        THEN Len(results) ELSE call.arg.max_results
                 /\ \A i \in 1..Len(call.ret[1]) :
                        /\ call.ret[1][i].title =
                               IF "title" \in DOMAIN results[i]
                               THEN results[i].title ELSE ""
                        /\ call.ret[1][i].url =
                               IF "link" \in DOMAIN results[i]
                               THEN results[i].link ELSE ""

\* three results were asked for of the four B, A, {}, A: B, A and {} came
C22_Witness ==
    /\ SearchReturned
    /\ ListedResults
    /\ call.arg.max_results = 3
    /\ Len(call.arg.client.returns.dict.results) = 4
    /\ Len(call.ret[1]) = 3
    /\ call.ret[1][1].title = "B"
    /\ call.ret[1][2].title = "A"
    /\ call.ret[1][3].title = ""

\* the call of the client failed, or its response is empty or lists no results
NothingFound ==
    \/ "raises" \in DOMAIN call.arg.client
    \/ /\ "returns" \in DOMAIN call.arg.client
       /\ \/ IsNone(call.arg.client.returns)
          \/ DOMAIN call.arg.client.returns.dict = {}
          \/ "results" \notin DOMAIN call.arg.client.returns.dict

\* C23: search_market_news always returns a list, and the empty list when
\* the call of the client fails or its response is empty or has no results
\* key.
C23_EmptyOnFailure ==
    SearchReturned =>
        /\ DOMAIN call.ret[1] = 1..Len(call.ret[1])
        /\ NothingFound => call.ret[1] = <<>>

\* the response {"error": ..} has been answered by the empty list
C23_Witness ==
    /\ SearchReturned
    /\ "returns" \in DOMAIN call.arg.client
    /\ ~IsNone(call.arg.client.returns)
    /\ DOMAIN call.arg.client.returns.dict = {"error"}
    /\ call.ret[1] = <<>>

(***************************************************************************)
(* MarketResearchActivity on the skill: SpecResearch.                      *)
(***************************************************************************)
\* self.target_markets
target_markets == <<"saas", "e-commerce", "digital_products", "consulting", "mobile_apps">>

\* self.focus_areas
focus_areas == <<"emerging trends", "market size", "growth opportunities",
                 "competitive landscape">>

competitor_types == <<"established", "startup", "emerging">>

\* what the client answers to a query about a market it knows: two results
ClientHits ==
    <<[title |-> "Top five SaaS tools rise", snippet |-> "a", link |-> "https://a",
       source |-> "sa"],
      [title |-> "B", link |-> "https://b"]>>

\* self.client.search for a query about market, given the set found of the
\* markets the client knows; for the others the call fails
ClientFor(market, found) ==
    IF market \in found
    THEN [returns |-> PyDict([results |-> ClientHits])]
    ELSE [raises |-> "Unauthorized"]

\* the items of the lists fs[1], .., fs[n], one list after the other
RECURSIVE ConcatTo(_, _)
ConcatTo(fs, n) == IF n = 0 THEN <<>> ELSE ConcatTo(fs, n - 1) \o fs[n]

\* the elements of l that are not the empty list or dict
NonEmpty(l) == SelectSeq(l, LAMBDA x : DOMAIN x # {})

\* the index after the first space of s at or after i (Len(s) + 1 if none)
RECURSIVE WordEnd(_, _)
WordEnd(s, i) ==
    IF i > Len(s) \/ CharAt(s, i) = " " THEN i ELSE WordEnd(s, i + 1)

\* title.split(), for words parted by spaces
RECURSIVE SplitFrom(_, _)
SplitFrom(s, i) ==
    IF i > Len(s) THEN <<>>
    ELSE IF CharAt(s, i) = " " THEN SplitFrom(s, i + 1)
    ELSE <<SubSeq(s, i, WordEnd(s, i) - 1)>> \o SplitFrom(s, WordEnd(s, i))

\* MarketResearchSkill._extract_company_name
SK_extract_company_name(title) ==
    LET words == SplitFrom(title, 1)
    IN  IF Len(words) > 3
        THEN words[1] \o " " \o words[2] \o " " \o words[3] \o "..."
        ELSE title

\* MarketResearchSkill.analyze_market_trends
SK_analyze_market_trends(market, areas, found) ==
    [market |-> market,
     trends |->
        NonEmpty([a \in 1..Len(areas) |->
            LET results == SK_search_market_news(ClientFor(market, found), 3)
            IN  IF results = <<>> THEN <<>>
                ELSE [focus_area |-> areas[a],
                      insights   |->
                         [i \in 1..Len(results) |->
                             [title   |-> results[i].title,
                              summary |-> results[i].summary,
                              source  |-> results[i].source]]]]),
     timestamp |-> IsoFormat(now)]

\* MarketResearchSkill.research_competitors
SK_research_competitors(market, types, found) ==
    [market |-> market,
     segments |->
        NonEmpty([t \in 1..Len(types) |->
            LET results == SK_search_market_news(ClientFor(market, found), 5)
            IN  IF results = <<>> THEN <<>>
                ELSE [segment     |-> types[t],
                      competitors |->
                         [i \in 1..Len(results) |->
                             [name        |-> SK_extract_company_name(results[i].title),
                              description |-> results[i].summary,
                              source      |-> results[i].source]]]]),
     timestamp |-> IsoFormat(now)]

\* the news of one market, each item tagged with the market
MR_market_news(market, found) ==
    LET news == SK_search_market_news(ClientFor(market, found), 5)
    IN  [i \in 1..Len(news) |-> Put(news[i], "market", market)]

Least(a, b) == IF a < b THEN a ELSE b

\* variant: an exception while gathering discards what was gathered
MR_gather_nothing(found, done) ==
    IF done < 3 * Len(target_markets)
    THEN [news |-> <<>>, trends |-> <<>>, competitors |-> <<>>]
    ELSE [news |-> ConcatTo([m \in 1..Len(target_markets) |->
                                MR_market_news(target_markets[m], found)],
                            Len(target_markets)),
          trends |-> [m \in 1..Len(target_markets) |->
                         SK_analyze_market_trends(target_markets[m], focus_areas, found)],
          competitors |-> [m \in 1..Len(target_markets) |->
                              SK_research_competitors(target_markets[m],
                                                      competitor_types, found)]]

\* MarketResearchActivity._gather_market_data when the first done calls of
\* the skill return and the next one, if there is one, raises: the three
\* loops run over the markets in turn, and the except branch returns what
\* the loops have put into market_data
MR_gather_market_data(found, done) ==
    LET n == Len(target_markets)
    IN  [news |-> ConcatTo([m \in 1..n |-> MR_market_news(target_markets[m], found)],
                           Least(done, n)),
         trends |-> [m \in 1..Least(done - Least(done, n), n) |->
                        SK_analyze_market_trends(target_markets[m], focus_areas, found)],
         competitors |-> [m \in 1..Least(done - Least(done, 2 * n), n) |->
                             SK_research_competitors(target_markets[m],
                                                     competitor_types, found)]]

MR_requirements ==
    [skills |-> <<>>, initial_investment |-> "Unknown", time_to_market |-> "Unknown"]

\* the opportunities of the insights of one trend of one market
MR_trend_opportunities(market, trend) ==
    [i \in 1..Len(trend.insights) |->
        [market |-> market, type |-> "trend_based",
         title |-> trend.insights[i].title, insight |-> trend.insights[i].summary,
         source |-> trend.insights[i].source, focus_area |-> trend.focus_area,
         requirements |-> MR_requirements, risks |-> <<>>, next_steps |-> <<>>]]

\* MarketResearchActivity._analyze_opportunities
MR_analyze_opportunities(market_data) ==
    [i \in 1..Len(market_data.news) |->
        [market |-> market_data.news[i].market, type |-> "news_based",
         title |-> market_data.news[i].title, insight |-> market_data.news[i].summary,
         source_url |-> market_data.news[i].url,
         requirements |-> MR_requirements, risks |-> <<>>, next_steps |-> <<>>]]
    \o ConcatTo([t \in 1..Len(market_data.trends) |->
                    ConcatTo([j \in 1..Len(market_data.trends[t].trends) |->
                                 MR_trend_opportunities(market_data.trends[t].market,
                                                        market_data.trends[t].trends[j])],
                             Len(market_data.trends[t].trends))],
                Len(market_data.trends))

\* what the import of the skill's module and MarketResearchSkill(api_key)
\* do: the skill, or the exception of a missing linkup package
SkillOutcomes ==
    {[returns |-> "MarketResearchSkill"], [raises |-> "No module named 'linkup'"]}

\* the storing of the research and the success return of execute
MRStore(research_data) ==
    /\ store' = [store EXCEPT !["latest_market_research"] = <<research_data>>]
    /\ result' = [activity |-> "market_research",
                  success  |-> TRUE,
                  data     |-> research_data,
                  metadata |-> [markets_analyzed |-> target_markets,
                                timestamp |-> research_data.timestamp]]

\* variant: the run without an API key drops the research stored before
MRNoKeyClears ==
    /\ result' = [activity |-> "market_research",
                  success  |-> FALSE,
                  error    |-> "Linkup API key not configured"]
    /\ store' = [store EXCEPT !["latest_market_research"] = <<>>]

\* the return of execute without an API key
MRNoKey ==
    /\ result' = [activity |-> "market_research",
                  success  |-> FALSE,
                  error    |-> "Linkup API key not configured"]
    /\ UNCHANGED store

\* the except branch of execute: the failure carries str(e)
MRError(error) ==
    /\ result' = [activity |-> "market_research",
                  success  |-> FALSE,
                  error    |-> error]
    /\ UNCHANGED store

\* MarketResearchActivity.execute, given what api_manager.get_api_key
\* returns (api_key: <<>> for None), what importing and constructing the
\* skill does (market_skill), the markets the client knows (found) and the
\* number of calls of the skill that return before one raises (done)
MRExecute ==
    /\ Pending("MR.execute")
    /\ IF call.arg.api_key = <<>> \/ call.arg.api_key = <<"">>
       THEN MRNoKey
       ELSE IF "raises" \in DOMAIN call.arg.market_skill
       THEN MRError(call.arg.market_skill.raises)
       ELSE LET market_data == MR_gather_market_data(call.arg.found, call.arg.done)
            IN  MRStore([timestamp     |-> IsoFormat(now),
                         market_data   |-> market_data,
                         opportunities |-> MR_analyze_opportunities(market_data)])
    /\ call' = [call EXCEPT !.ret = <<result'.success>>]
    /\ UNCHANGED <<now, oa_criteria, me_criteria>>

\* a pending run of market research on a store that holds no research or an
\* earlier record, at time 0 or 1
InitResearch ==
    /\ store \in {[k \in StoreKeys |->
                     IF k = "latest_market_research" THEN r ELSE <<>>] :
                  r \in ResearchValues}
    /\ now \in 0..MaxNow
    /\ oa_criteria = OA_init_criteria
    /\ me_criteria = ME_init_criteria
    /\ result = NoResult
    /\ call \in {[fn |-> "MR.execute",
                  arg |-> [api_key |-> k, market_skill |-> s, found |-> f, done |-> d],
                  ret |-> <<>>] :
                 k \in {<<>>, <<"">>, <<"key">>},
                 s \in SkillOutcomes,
                 f \in SUBSET {target_markets[m] : m \in 1..Len(target_markets)},
                 d \in 0..(3 * Len(target_markets))}

NextResearch == MRExecute

SpecResearch == InitResearch /\ [][NextResearch]_vars

ResearchRan == call.fn = "MR.execute" /\ call.ret # <<>>

KeyConfigured ==
    /\ call.arg.api_key # <<>> /\ call.arg.api_key # <<"">>
    /\ "returns" \in DOMAIN call.arg.market_skill

\* how many of the n calls of a loop returned, when the loops before it
\* made before calls and done calls returned in all
Returned_of(done, before, n) ==
    IF done <= before THEN 0 ELSE IF done - before >= n THEN n ELSE done - before

\* C24: with an API key, MarketResearchActivity.execute succeeds whatever
\* the calls of the skill do (results, no results, or an exception part-way,
\* after which what was gathered is kept), and stores under
\* latest_market_research a record with timestamp, opportunities and a
\* market_data with the keys news, trends and competitors, every news item
\* tagged with its market.
C24_Research ==
    (ResearchRan /\ KeyConfigured) =>
        /\ result.activity = "market_research"
        /\ result.success
        /\ store["latest_market_research"] = <<result.data>>
        /\ DOMAIN result.data = {"timestamp", "market_data", "opportunities"}
        /\ result.data.timestamp = IsoFormat(now)
        /\ DOMAIN result.data.market_data = {"news", "trends", "competitors"}
        /\ \A i \in 1..Len(result.data.market_data.news) :
               /\ "market" \in DOMAIN result.data.market_data.news[i]
               /\ result.data.market_data.news[i].market \in call.arg.found
        /\ Len(result.data.market_data.news) =
               2 * Cardinality({m \in 1..Returned_of(call.arg.done, 0, 5) :
                                   target_markets[m] \in call.arg.found})
        /\ Len(result.data.market_data.trends) = Returned_of(call.arg.done, 5, 5)
        /\ Len(result.data.market_data.competitors) = Returned_of(call.arg.done, 10, 5)

\* the eighth call of the skill raised: the news of the markets and the
\* trends of the first two of them are stored
C24_Witness ==
    /\ ResearchRan
    /\ KeyConfigured
    /\ call.arg.done = 7
    /\ call.arg.found = {"saas", "consulting"}
    /\ result.success
    /\ Len(store["latest_market_research"][1].market_data.news) = 4
    /\ Len(store["latest_market_research"][1].market_data.trends) = 2
    /\ store["latest_market_research"][1].market_data.competitors = <<>>

(***************************************************************************)
(* The chat-based MoneyEvaluationActivity of tests/test_money_evaluation:  *)
(* SpecChat.  execute suspends at each call of the chat skill, so each     *)
(* call is a step; call holds the position of execute (pc), the calls made *)
(* so far (log) and what the skill does at each call (arg).                *)
(***************************************************************************)
\* the except branch of execute
ChatError(error) ==
    /\ result' = [activity |-> "chat_money_evaluation", success |-> FALSE,
                  error |-> error]

\* the answers get_chat_completion may give: a completion, a reported
\* failure with or without an error text, or an exception
Completions ==
    {[returns |-> [success |-> TRUE,
                   data |-> [content |-> c, model |-> "gpt-4", finish_reason |-> "stop"]]] :
        c \in {"Mock response", "1. Online Course Creation Platform"}}
    \cup {[returns |-> [success |-> FALSE, error |-> "API error"]],
          [returns |-> [success |-> FALSE]],
          [raises |-> "timeout"]}

InitChat ==
    /\ store = [k \in StoreKeys |-> <<>>]
    /\ now = 0
    /\ oa_criteria = OA_init_criteria
    /\ me_criteria = ME_init_criteria
    /\ result = NoResult
    /\ call \in {[fn |-> "CME.execute",
                  arg |-> [initialize |-> i, ideas |-> c1, evaluation |-> c2],
                  ret |-> <<>>, pc |-> "initialize", log |-> <<>>,
                  generated_ideas |-> ""] :
                 i \in {[returns |-> TRUE], [returns |-> FALSE], [raises |-> "no key"]},
                 c1 \in Completions, c2 \in Completions}

\* execute goes on to the step pc, having made the call named made
ChatGoOn(made, pc, generated_ideas) ==
    /\ call' = [call EXCEPT !.log = @ \o <<made>>, !.pc = pc,
                            !.generated_ideas = generated_ideas]
    /\ UNCHANGED result

\* execute returns, having made the call named made
ChatDone(made) ==
    call' = [call EXCEPT !.log = @ \o <<made>>, !.pc = "done",
                         !.ret = <<result'.success>>]

\* what execute does with a completion that reports failure: it returns its
\* error, and the lookup of a missing error raises KeyError
ChatReported(response) ==
    IF "error" \in DOMAIN response THEN ChatError(response.error)
    ELSE ChatError("'error'")

\* await chat_skill.initialize() and the test of its result
ChatInitialize ==
    /\ call.fn = "CME.execute" /\ call.pc = "initialize"
    /\ IF "raises" \in DOMAIN call.arg.initialize
       THEN ChatError(call.arg.initialize.raises) /\ ChatDone("initialize")
       ELSE IF ~call.arg.initialize.returns
       THEN ChatError("Failed to initialize openai_chat skill") /\ ChatDone("initialize")
       ELSE ChatGoOn("initialize", "ideas", "")
    /\ UNCHANGED <<store, now, oa_criteria, me_criteria>>

\* variant: the ideas completion is not tested for failure
ChatIdeasUnchecked ==
    /\ call.fn = "CME.execute" /\ call.pc = "ideas"
    /\ ChatGoOn("ideas", "evaluation", "")
    /\ UNCHANGED <<store, now, oa_criteria, me_criteria>>

\* the ideas completion and the test of its response
ChatIdeas ==
    /\ call.fn = "CME.execute" /\ call.pc = "ideas"
    /\ IF "raises" \in DOMAIN call.arg.ideas
       THEN ChatError(call.arg.ideas.raises) /\ ChatDone("ideas")
       ELSE IF ~call.arg.ideas.returns.success
       THEN ChatReported(call.arg.ideas.returns) /\ ChatDone("ideas")
       ELSE ChatGoOn("ideas", "evaluation", call.arg.ideas.returns.data.content)
    /\ UNCHANGED <<store, now, oa_criteria, me_criteria>>

\* the evaluation completion, the test of its response and the return
ChatEvaluation ==
    /\ call.fn = "CME.execute" /\ call.pc = "evaluation"
    /\ IF "raises" \in DOMAIN call.arg.evaluation
       THEN ChatError(call.arg.evaluation.raises)
       ELSE IF ~call.arg.evaluation.returns.success
       THEN ChatReported(call.arg.evaluation.returns)
       ELSE result' =
               [activity |-> "chat_money_evaluation", success |-> TRUE,
                data |-> [generated_ideas |-> call.generated_ideas,
                          evaluation |-> call.arg.evaluation.returns.data.content],
                metadata |->
                   [model |-> call.arg.evaluation.returns.data.model,
                    finish_reason |-> call.arg.evaluation.returns.data.finish_reason]]
    /\ ChatDone("evaluation")
    /\ UNCHANGED <<store, now, oa_criteria, me_criteria>>

NextChat == ChatInitialize \/ ChatIdeas \/ ChatEvaluation

SpecChat == InitChat /\ [][NextChat]_vars

ChatOrder == <<"initialize", "ideas", "evaluation">>

ChatFinished == call.fn = "CME.execute" /\ call.pc = "done"

\* C25: the chat-based activity calls initialize, then the ideas completion,
\* then the evaluation completion, in that order and each at most once; a
\* successful run has made the two completions; when initialize returns
\* false the run fails with a "Failed to initialize" error without a
\* completion; when the ideas completion reports failure the run fails
\* without the evaluation completion.
C25_CallOrder ==
    call.fn = "CME.execute" =>
        /\ Len(call.log) <= 3
        /\ call.log = SubSeq(ChatOrder, 1, Len(call.log))
        /\ (ChatFinished /\ result.success) => call.log = ChatOrder
        /\ (ChatFinished /\ call.arg.initialize = [returns |-> FALSE]) =>
               /\ ~result.success
               /\ SubSeq(result.error, 1, 20) = "Failed to initialize"
               /\ call.log = <<"initialize">>
        /\ (/\ ChatFinished
            /\ call.arg.initialize = [returns |-> TRUE]
            /\ "returns" \in DOMAIN call.arg.ideas
            /\ ~call.arg.ideas.returns.success) =>
               /\ ~result.success
               /\ call.log = <<"initialize", "ideas">>

\* a run whose ideas completion reported "API error" has ended
C25_Witness ==
    /\ ChatFinished
    /\ call.arg.ideas = [returns |-> [success |-> FALSE, error |-> "API error"]]
    /\ result = [activity |-> "chat_money_evaluation", success |-> FALSE,
                 error |-> "API error"]
    /\ call.log = <<"initialize", "ideas">>

HighMarginLabels == {"saas", "digital_products", "consulting"}

\* C26: the profitability scorer of each pipeline gives the +0.2 bonus to an
\* opportunity whose market (analyzer) or sector (money evaluation) is saas,
\* digital_products or consulting: its score is at least 0.7 unless the
\* insight holds a negative keyword.
C26_HighMargin ==
    /\ (/\ Returned("OA._evaluate_profitability")
        /\ "market" \in DOMAIN call.arg
        /\ call.arg.market \in HighMarginLabels) =>
           FLe(Dec(7, 1), call.ret[1])
    /\ (/\ Returned("ME._evaluate_profitability")
        /\ "sector" \in DOMAIN call.arg
        /\ Lower(call.arg.sector) \in HighMarginLabels
        /\ ~Contains(Lower(Get(call.arg, "insight", "")), "competitive")
        /\ ~Contains(Lower(Get(call.arg, "insight", "")), "saturated")) =>
           FLe(Dec(7, 1), call.ret[1])

\* C27: the analyzer's market_potential scorer adds +0.1 for a market_size
\* that contains "trillion", a smaller bonus for one that contains only
\* "billion", and at most +0.1 for the growth_rate: without a growth_rate a
\* "trillion" opportunity scores 0.7 + 0.1 and a "billion" one less than
\* that, and a growth_rate adds at most 0.1 to either.
C27_SizeBonus ==
    (Returned("OA._evaluate_market_potential") /\ "market_size" \in DOMAIN call.arg) =>
        LET size    == Lower(call.arg.market_size)
            sized   == OA_evaluate_market_potential([market_size |-> call.arg.market_size])
        IN  /\ Contains(size, "trillion") => sized = FAdd(Dec(7, 1), Dec(1, 1))
            /\ (Contains(size, "billion") /\ ~Contains(size, "trillion")) =>
                   (FLt(Dec(7, 1), sized) /\ FLt(sized, FAdd(Dec(7, 1), Dec(1, 1))))
            /\ FLe(call.ret[1], FAdd(sized, Dec(1, 1)))

(***************************************************************************)
(* MoneyEvaluationActivity.execute on the store and the skill: SpecMoney.  *)
(***************************************************************************)
\* max_age_hours of _is_data_fresh
max_age_hours == 24

\* last hour of the clock in SpecMoney
MaxHours == 26

\* datetime.fromisoformat on a text of the local, naive form: the date alone
\* ("2025-01-02", midnight) or date and time ("2025-01-02T03:00:00"), of
\* the month the clock of the model runs in; <<hours>> since the start of
\* that month, <<>> for the ValueError on any other text
ParseIso(s) ==
    LET shaped(t, pattern) ==
            /\ Len(t) = Len(pattern)
            /\ \A i \in 1..Len(t) :
                   IF CharAt(pattern, i) = "d" THEN IsDigit(CharAt(t, i))
                   ELSE CharAt(t, i) = CharAt(pattern, i)
        day  == DigitsVal(SubSeq(s, 9, 10))
        hour == IF Len(s) = 10 THEN 0 ELSE DigitsVal(SubSeq(s, 12, 13))
    IN  IF /\ shaped(s, "2025-01-dd") \/ shaped(s, "2025-01-ddTdd:00:00")
           /\ day \in 1..31 /\ hour \in 0..23
        THEN <<(day - 1) * 24 + hour>>
        ELSE <<>>

\* variant: data of exactly max_age_hours still count as fresh
ME_is_data_fresh_inclusive(timestamp) ==
    /\ timestamp # <<>> /\ timestamp # <<"">>
    /\ ParseIso(timestamp[1]) # <<>>
    /\ now - ParseIso(timestamp[1])[1] <= max_age_hours

\* MoneyEvaluationActivity._is_data_fresh; timestamp is <<>> for None
ME_is_data_fresh(timestamp) ==
    /\ timestamp # <<>> /\ timestamp # <<"">>
    /\ ParseIso(timestamp[1]) # <<>>
    /\ now - ParseIso(timestamp[1])[1] < max_age_hours

ME_sectors == <<"business", "technology", "startup", "investment">>

ME_focus_areas == <<"emerging markets", "digital transformation", "consumer behavior">>

\* the news of one sector, each item tagged with the sector
ME_sector_news(sector, found) ==
    LET news == SK_search_market_news(ClientFor(sector, found), 5)
    IN  [i \in 1..Len(news) |-> Put(news[i], "sector", sector)]

\* the new research of _get_market_data: the two loops over the sectors
ME_new_market_data(found) ==
    [news |-> ConcatTo([m \in 1..Len(ME_sectors) |-> ME_sector_news(ME_sectors[m], found)],
                       Len(ME_sectors)),
     trends |-> [m \in 1..Len(ME_sectors) |->
                    SK_analyze_market_trends(ME_sectors[m], ME_focus_areas, found)],
     competitors |-> <<>>]

\* does _get_market_data return the stored market_data?
ME_reuses(latest_research) ==
    /\ Truthy(latest_research)
    /\ ME_is_data_fresh(IF "timestamp" \in DOMAIN latest_research[1]
                        THEN <<latest_research[1].timestamp>> ELSE <<>>)

\* MoneyEvaluationActivity._get_market_data
ME_get_market_data(latest_research, found) ==
    IF ME_reuses(latest_research)
    THEN Get(latest_research[1], "market_data", EmptyDict)
    ELSE ME_new_market_data(found)

ME_requirements ==
    [skills |-> <<>>, initial_investment |-> "Unknown", time_to_market |-> "Unknown"]

\* the opportunities of the insights of one trend of one sector
ME_trend_opportunities(trend_data, trend) ==
    LET insights == Get(trend, "insights", <<>>)
    IN  [i \in 1..Len(insights) |->
            [type |-> "trend_based", sector |-> Get(trend_data, "market", "general"),
             title |-> insights[i].title, insight |-> insights[i].summary,
             source |-> insights[i].source, focus_area |-> Get(trend, "focus_area", ""),
             requirements |-> ME_requirements]]

\* MoneyEvaluationActivity._analyze_opportunities
ME_analyze_opportunities(market_data) ==
    (IF "news" \in DOMAIN market_data
     THEN [i \in 1..Len(market_data.news) |->
              [type |-> "news_based",
               sector |-> Get(market_data.news[i], "sector", "general"),
               title |-> market_data.news[i].title,
               insight |-> market_data.news[i].summary,
               source |-> market_data.news[i].source,
               url |-> Get(market_data.news[i], "url", ""),
               requirements |-> ME_requirements]]
     ELSE <<>>)
    \o (IF "trends" \in DOMAIN market_data
        THEN ConcatTo([t \in 1..Len(market_data.trends) |->
                 LET trends == Get(market_data.trends[t], "trends", <<>>)
                 IN  ConcatTo([j \in 1..Len(trends) |->
                                  ME_trend_opportunities(market_data.trends[t], trends[j])],
                              Len(trends))],
                 Len(market_data.trends))
        ELSE <<>>)

\* variant: the research the run used is written back to the store
MEStoreWithResearch(evaluation_result) ==
    /\ store' = [store EXCEPT
                    !["latest_money_evaluation"] = <<evaluation_result>>,
                    !["latest_market_research"] =
                        <<[timestamp   |-> evaluation_result.timestamp,
                           market_data |-> evaluation_result.market_data]>>]
    /\ result' = [activity |-> "money_evaluation",
                  success  |-> TRUE,
                  data     |-> evaluation_result,
                  metadata |->
                     [opportunities_evaluated |-> Len(evaluation_result.opportunities),
                      timestamp |-> evaluation_result.timestamp]]

\* the storing of the evaluation and the success return of execute
MEStore(evaluation_result) ==
    /\ store' = [store EXCEPT !["latest_money_evaluation"] = <<evaluation_result>>]
    /\ result' = [activity |-> "money_evaluation",
                  success  |-> TRUE,
                  data     |-> evaluation_result,
                  metadata |->
                     [opportunities_evaluated |-> Len(evaluation_result.opportunities),
                      timestamp |-> evaluation_result.timestamp]]

\* the return of execute without an API key
MENoKey ==
    /\ result' = [activity |-> "money_evaluation",
                  success  |-> FALSE,
                  error    |-> "Linkup API key not configured"]
    /\ UNCHANGED store

\* the except branch of execute: the failure carries str(e)
MEError(error) ==
    /\ result' = [activity |-> "money_evaluation",
                  success  |-> FALSE,
                  error    |-> error]
    /\ UNCHANGED store

\* the calls of the skill _get_market_data makes: none when it reuses the
\* stored data, one search per sector and one trend analysis per sector
\* otherwise
ME_skill_calls(latest_research) ==
    IF ME_reuses(latest_research) THEN 0 ELSE 2 * Len(ME_sectors)

\* MoneyEvaluationActivity.execute, given what api_manager.get_api_key
\* returns (api_key), what importing and constructing the skill does
\* (market_skill) and the sectors the client knows (found); call.skill
\* counts the calls of the skill
MEExecute ==
    /\ Pending("ME.execute")
    /\ IF call.arg.api_key = <<>> \/ call.arg.api_key = <<"">>
       THEN /\ MENoKey
            /\ call' = [call EXCEPT !.ret = <<FALSE>>]
       ELSE IF "raises" \in DOMAIN call.arg.market_skill
       THEN /\ MEError(call.arg.market_skill.raises)
            /\ call' = [call EXCEPT !.ret = <<FALSE>>]
       ELSE LET market_data ==
                    ME_get_market_data(store["latest_market_research"], call.arg.found)
                opportunities == ME_analyze_opportunities(market_data)
            IN  /\ MEStore([timestamp     |-> IsoFormat(now),
                            market_data   |-> market_data,
                            opportunities |-> opportunities,
                            evaluations   |->
                                ME_evaluate_opportunities(opportunities, me_criteria),
                            criteria      |-> me_criteria])
                /\ call' = [call EXCEPT
                               !.ret = <<TRUE>>,
                               !.skill = ME_skill_calls(store["latest_market_research"])]
    /\ UNCHANGED <<now, oa_criteria, me_criteria>>

\* the market_data of a stored research record
StoredMarketData ==
    [news |-> <<[title |-> "Growing market for SaaS", summary |-> "High demand",
                 url |-> "https://a", source |-> "sa", timestamp |-> IsoFormat(0),
                 market |-> "saas"]>>,
     trends |-> <<>>,
     competitors |-> <<>>]

\* what the store may hold under latest_market_research when the money
\* evaluation runs: nothing, records without a usable timestamp, and records
\* of the first hours of the clock
StampedResearch ==
    {<<>>,
     <<[market_data |-> StoredMarketData, opportunities |-> <<>>]>>,
     <<[timestamp |-> "", market_data |-> StoredMarketData, opportunities |-> <<>>]>>,
     <<[timestamp |-> "yesterday", market_data |-> StoredMarketData,
        opportunities |-> <<>>]>>,
     <<[timestamp |-> "2025-01-01", market_data |-> StoredMarketData,
        opportunities |-> <<>>]>>,
     <<[timestamp |-> IsoFormat(1), opportunities |-> <<>>]>>}
    \cup {<<[timestamp |-> IsoFormat(t), market_data |-> StoredMarketData,
             opportunities |-> <<>>]>> : t \in 0..2}

InitMoney ==
    /\ now \in 0..MaxHours
    /\ store \in {[k \in StoreKeys |->
                     IF k = "latest_market_research" THEN r ELSE <<>>] :
                  r \in StampedResearch}
    /\ oa_criteria = OA_init_criteria
    /\ me_criteria = ME_init_criteria
    /\ result = NoResult
    /\ call \in {[fn |-> "ME.execute",
                  arg |-> [api_key |-> k, market_skill |-> s, found |-> f],
                  ret |-> <<>>, skill |-> 0] :
                 k \in {<<>>, <<"key">>},
                 s \in SkillOutcomes,
                 f \in {{}, {"technology"}}}

NextMoney == MEExecute

SpecMoney == InitMoney /\ [][NextMoney]_vars

\* a step in which MoneyEvaluationActivity.execute ran with an API key
MoneyStep ==
    /\ call.fn = "ME.execute"
    /\ call.ret = <<>>
    /\ call'.ret = <<TRUE>>

\* the stored research exists and carries the ISO-8601 text of a time less
\* than 24 hours before now
StoredIsFresh ==
    /\ store["latest_market_research"] # <<>>
    /\ "timestamp" \in DOMAIN store["latest_market_research"][1]
    /\ \E t \in 0..MaxHours :
          /\ \/ store["latest_market_research"][1].timestamp = IsoFormat(t)
             \/ /\ t = 0
                /\ store["latest_market_research"][1].timestamp = "2025-01-01"
          /\ now - t < 24

\* C28: _get_market_data returns the market_data of the stored research,
\* without a call of the skill, exactly when that record exists and its
\* timestamp is an ISO-8601 text of less than 24 hours ago; otherwise (no
\* record, no or an unparsable timestamp, 24 hours or more) it searches
\* anew; either way the run leaves latest_market_research as it was.
C28_Freshness ==
    [][MoneyStep =>
          /\ IF StoredIsFresh
             THEN /\ call'.skill = 0
                  /\ result'.data.market_data =
                         (IF "market_data" \in DOMAIN store["latest_market_research"][1]
                          THEN store["latest_market_research"][1].market_data
                          ELSE EmptyDict)
             ELSE /\ call'.skill > 0
                  /\ DOMAIN result'.data.market_data = {"news", "trends", "competitors"}
                  /\ Len(result'.data.market_data.news) =
                         2 * Cardinality(call.arg.found)
                  /\ Len(result'.data.market_data.trends) = 4
          /\ store'["latest_market_research"] = store["latest_market_research"]]_vars

\* research of 23 hours ago has been reused
C28_Witness ==
    /\ call.fn = "ME.execute"
    /\ call.ret = <<TRUE>>
    /\ now = 24
    /\ store["latest_market_research"] # <<>>
    /\ "timestamp" \in DOMAIN store["latest_market_research"][1]
    /\ store["latest_market_research"][1].timestamp = IsoFormat(1)
    /\ "market_data" \in DOMAIN store["latest_market_research"][1]
    /\ call.skill = 0
    /\ result.data.market_data = StoredMarketData
    /\ Len(result.data.evaluations) = 1

(***************************************************************************)
(* XAPISkill with several post_tweet calls in flight: SpecX.  call holds   *)
(* the skill object (enabled, rate_limit, posts_count) and, for each       *)
(* caller, where its post_tweet stands: "idle" (no call), "upload"         *)
(* (suspended in await self.upload_media, left uploads to go) or "done"    *)
(* (returned ret).                                                         *)
(***************************************************************************)
\* callers of post_tweet
MaxTasks == 2

\* largest rate_limit of the config
MaxRate == 2

\* most media_urls of a post
MaxMedia == 2

Tasks == 1..MaxTasks

InitX ==
    /\ store = [k \in StoreKeys |-> <<>>]
    /\ now = 0
    /\ oa_criteria = OA_init_criteria
    /\ me_criteria = ME_init_criteria
    /\ result = NoResult
    /\ call \in {[fn |-> "X.post_tweet", enabled |-> e, rate_limit |-> r,
                  posts_count |-> 0,
                  tasks |-> [t \in Tasks |-> [pc |-> "idle", left |-> 0, ret |-> "none"]]] :
                 e \in BOOLEAN, r \in 0..MaxRate}

\* XAPISkill.can_post
X_can_post == call.enabled /\ call.posts_count < call.rate_limit

\* the end of post_tweet for caller t, from the call of the post action on;
\* the action reports success, reports failure or raises
XFinish(t, outcome) ==
    call' = [call EXCEPT
                !.posts_count = IF outcome = "posted" THEN @ + 1 ELSE @,
                !.tasks[t] = [pc |-> "done", left |-> 0,
                              ret |-> IF outcome = "posted" THEN "success" ELSE "failure"]]

PostOutcomes == {"posted", "rejected", "raised"}

\* caller t calls post_tweet with n media_urls: the can_post test and, up to
\* the first await, what follows it
XPostTweet(t, n) ==
    /\ call.fn = "X.post_tweet"
    /\ call.tasks[t].pc # "upload"
    /\ IF ~X_can_post
       THEN call' = [call EXCEPT !.tasks[t] = [pc |-> "done", left |-> 0,
                                               ret |-> "refused"]]
       ELSE IF n > 0
       THEN call' = [call EXCEPT !.tasks[t] = [pc |-> "upload", left |-> n,
                                               ret |-> "none"]]
       ELSE \E outcome \in PostOutcomes : XFinish(t, outcome)
    /\ UNCHANGED <<store, now, oa_criteria, me_criteria, result>>

\* an upload_media of caller t returns; after the last one the post is made
XUploaded(t) ==
    /\ call.fn = "X.post_tweet"
    /\ call.tasks[t].pc = "upload"
    /\ IF call.tasks[t].left > 1
       THEN call' = [call EXCEPT !.tasks[t].left = @ - 1]
       ELSE \E outcome \in PostOutcomes : XFinish(t, outcome)
    /\ UNCHANGED <<store, now, oa_criteria, me_criteria, result>>

\* XAPISkill.reset_counts
XResetCounts ==
    /\ call.fn = "X.post_tweet"
    /\ call' = [call EXCEPT !.posts_count = 0]
    /\ UNCHANGED <<store, now, oa_criteria, me_criteria, result>>

NextX ==
    \/ \E t \in Tasks, n \in 0..MaxMedia : XPostTweet(t, n)
    \/ \E t \in Tasks : XUploaded(t)
    \/ XResetCounts

SpecX == InitX /\ [][NextX]_vars

\* C29: in every reachable state of an XAPISkill, also with several
\* post_tweet calls suspended in upload_media, posts_count <= rate_limit.
C29_WithinLimit ==
    call.fn = "X.post_tweet" => call.posts_count <= call.rate_limit

(***************************************************************************)
(* The three activities on one store, run after run: SpecFail.  The        *)
(* orchestrator calls execute of market research or of money evaluation    *)
(* with a key, a skill and a client of its choosing; the opportunity       *)
(* analyzer runs on what the store holds.                                  *)
(***************************************************************************)
\* what the key lookup and the skill's construction come to: no key, a key
\* and a skill that cannot be built, a key and a skill
KeyAndSkill ==
    {[api_key |-> <<>>, market_skill |-> [returns |-> "MarketResearchSkill"]],
     [api_key |-> <<"key">>, market_skill |-> [raises |-> "No module named 'linkup'"]],
     [api_key |-> <<"key">>, market_skill |-> [returns |-> "MarketResearchSkill"]]}

\* the pending calls of MarketResearchActivity.execute and of
\* MoneyEvaluationActivity.execute, the client knowing one market or sector
ExecuteCalls ==
    {[fn |-> "MR.execute",
      arg |-> [api_key |-> ks.api_key, market_skill |-> ks.market_skill,
               found |-> {"saas"}, done |-> 3 * Len(target_markets)],
      ret |-> <<>>] : ks \in KeyAndSkill}
    \cup
    {[fn |-> "ME.execute",
      arg |-> [api_key |-> ks.api_key, market_skill |-> ks.market_skill,
               found |-> {"technology"}],
      ret |-> <<>>, skill |-> 0] : ks \in KeyAndSkill}

\* the orchestrator calls execute of an activity once the call before it
\* has returned
CallExecute ==
    /\ call.ret # <<>>
    /\ call' \in ExecuteCalls
    /\ UNCHANGED <<store, now, oa_criteria, me_criteria, result>>

InitFail ==
    /\ store \in {[k \in StoreKeys |->
                     IF k = "latest_market_research" THEN r ELSE <<>>] :
                  r \in ResearchValues}
    /\ now = 0
    /\ oa_criteria = OA_init_criteria
    /\ me_criteria = ME_init_criteria
    /\ result = NoResult
    /\ call \in ExecuteCalls

NextFail ==
    \/ CallExecute
    \/ OAExecute
    \/ MRExecute
    \/ MEExecute

SpecFail == InitFail /\ [][NextFail]_vars

\* a step in which execute of one of the three activities returns a failure
FailedRun ==
    /\ result'.activity \in {"opportunity_analyzer", "money_evaluation", "market_research"}
    /\ ~result'.success
    /\ IF result'.activity = "opportunity_analyzer"
       THEN call' = call
       ELSE call.ret = <<>> /\ call'.ret = <<FALSE>>

\* C30: a failed run of the opportunity analyzer, of the money evaluation or
\* of the market research (no API key, no research data, or an exception
\* before the store is written) leaves every key of the store as it was.
C30_StoreKept == [][FailedRun => store' = store]_vars

\* the money evaluation has succeeded once and then failed on an exception:
\* the evaluation of the first run and the research are still stored
C30_Witness ==
    /\ result.activity = "money_evaluation"
    /\ ~result.success
    /\ result.error = "No module named 'linkup'"
    /\ store["latest_money_evaluation"] # <<>>
    /\ store["latest_market_research"] # <<>>
====
